---- MODULE Spec2Model ----
(***************************************************************************)
(* Bid-leveling worker (POST /api/level/worker) of Factory-Level-start.    *)
(* The model follows the worker handler: claim of the oldest queued        *)
(* processing job, loading of the bids and their documents, extraction of  *)
(* the Candidate Scope List, per-contractor scoring by the oracle,         *)
(* reconciliation against the candidate list, merge into the report, and   *)
(* the writes to processing_jobs and bid_level_reports.                    *)
(*                                                                         *)
(* Strings are TLA+ strings; the regular expressions of the handler are    *)
(* written as pattern trees and run by a backtracking matcher with the     *)
(* priority order of the JavaScript engine (greedy quantifiers, leftmost   *)
(* alternative first).                                                     *)
(***************************************************************************)
EXTENDS Integers, Sequences, FiniteSets, TLC

(***************************************************************************)
(* Characters and strings                                                  *)
(***************************************************************************)
LowerChars == {"a","b","c","d","e","f","g","h","i","j","k","l","m",
               "n","o","p","q","r","s","t","u","v","w","x","y","z"}

UpperChars == {"A","B","C","D","E","F","G","H","I","J","K","L","M",
               "N","O","P","Q","R","S","T","U","V","W","X","Y","Z"}

DigitChars == {"0","1","2","3","4","5","6","7","8","9"}

\* \s of the regular expressions (the whitespace that occurs in the texts)
SpaceChars == {" ", "\t", "\n", "\r"}

\* \w of the regular expressions
WordChars == LowerChars \cup UpperChars \cup DigitChars \cup {"_"}

\* String.prototype.toLowerCase, on one character
LowerOfChar ==
  [c \in UpperChars |->
     CASE c = "A" -> "a" [] c = "B" -> "b" [] c = "C" -> "c" [] c = "D" -> "d"
       [] c = "E" -> "e" [] c = "F" -> "f" [] c = "G" -> "g" [] c = "H" -> "h"
       [] c = "I" -> "i" [] c = "J" -> "j" [] c = "K" -> "k" [] c = "L" -> "l"
       [] c = "M" -> "m" [] c = "N" -> "n" [] c = "O" -> "o" [] c = "P" -> "p"
       [] c = "Q" -> "q" [] c = "R" -> "r" [] c = "S" -> "s" [] c = "T" -> "t"
       [] c = "U" -> "u" [] c = "V" -> "v" [] c = "W" -> "w" [] c = "X" -> "x"
       [] c = "Y" -> "y" [] c = "Z" -> "z"]

\* String.prototype.toUpperCase, on one character
UpperOfChar ==
  [c \in LowerChars |-> CHOOSE u \in UpperChars : LowerOfChar[u] = c]

\* Op applied to the value of v: the value is computed before Op is entered
Bind(v, Op(_)) == CHOOSE r \in {Op(x) : x \in {v}} : TRUE

\* the character of s at position i (1-based), "" outside the string
CharAt(s, i) == IF i >= 1 /\ i <= Len(s) THEN SubSeq(s, i, i) ELSE ""

\* String.prototype.slice(a, b) with 0 <= a, 0 <= b (0-based, b exclusive)
Slice(s, a, b) ==
  LET hi == IF b > Len(s) THEN Len(s) ELSE b
  IN  IF a >= hi THEN "" ELSE SubSeq(s, a + 1, hi)

RECURSIVE LowerRange(_, _, _)
LowerRange(s, i, j) ==
  IF i > j THEN ""
  ELSE IF i = j
       THEN LET c == SubSeq(s, i, i)
            IN  IF c \in UpperChars THEN LowerOfChar[c] ELSE c
       ELSE LET m == (i + j) \div 2
            IN  LowerRange(s, i, m) \o LowerRange(s, m + 1, j)

\* String.prototype.toLowerCase
ToLower(s) == LowerRange(s, 1, Len(s))

\* the text between the first and the last non-space character
TrimOf(s) ==
  LET solid == {i \in 1..Len(s) : SubSeq(s, i, i) \notin SpaceChars}
  IN  IF solid = {} THEN ""
      ELSE SubSeq(s, CHOOSE i \in solid : \A j \in solid : i <= j,
                     CHOOSE i \in solid : \A j \in solid : i >= j)

\* String.prototype.trim
Trim(s) == Bind(s, TrimOf)

\* String.prototype.includes
Includes(s, sub) ==
  \E i \in 1..(Len(s) - Len(sub) + 1) : SubSeq(s, i, i + Len(sub) - 1) = sub

\* a sequence given as a function, as a tuple
AsSeq(f) == f \o <<>>

\* the concatenation of f[lo], ..., f[hi] (sequences or strings; unit is the
\* empty one of the kind)
RECURSIVE ConcatRange(_, _, _, _)
ConcatRange(f, lo, hi, unit) ==
  CASE lo > hi -> unit
    [] lo = hi -> f[lo]
    [] OTHER   -> ConcatRange(f, lo, (lo + hi) \div 2, unit)
                    \o ConcatRange(f, ((lo + hi) \div 2) + 1, hi, unit)

\* the concatenation of the sequences parts[1], ..., parts[len]
Concat(parts, len) ==
  IF \A k \in 1..len : parts[k] = <<>> THEN <<>> ELSE ConcatRange(parts, 1, len, <<>>)

\* the concatenation of the sequences f[1], ..., f[len]
Flatten(f, len) == Concat(AsSeq(f), len)

\* the least element of a non-empty set of numbers
Least(ps) == CHOOSE p \in ps : \A q \in ps : p <= q

(***************************************************************************)
(* Regular expressions: pattern trees and the backtracking matcher          *)
(***************************************************************************)
Lit(str)        == [t |-> "lit", s |-> str]
Cls(chars)      == [t |-> "cls", cs |-> chars, neg |-> FALSE]
NotCls(chars)   == [t |-> "cls", cs |-> chars, neg |-> TRUE]
Cat(xs)         == [t |-> "seq", xs |-> xs]
Alt(xs)         == [t |-> "alt", xs |-> xs]
Rep(p, lo, hi)  == [t |-> "rep", sub |-> p, lo |-> lo, hi |-> hi]
Star(x)         == Rep(x, 0, -1)
Plus(x)         == Rep(x, 1, -1)
Opt(x)          == Rep(x, 0, 1)
Bol             == [t |-> "bol"]
Eol             == [t |-> "eol"]
Wb              == [t |-> "wb"]
Ahead(p)        == [t |-> "ahead", sub |-> p]
AnyChar         == NotCls({"\n", "\r"})
Ws              == Cls(SpaceChars)
Dig             == Cls(DigitChars)
Low             == Cls(LowerChars)

\* the alternation of literal strings
AnyOf(strs) == Alt(AsSeq([k \in 1..Len(strs) |-> Lit(strs[k])]))

\* Match(n, s, i): the positions at which a match of pattern n that starts
\* at position i of s can end (the position after its last character), in
\* the order in which a backtracking engine tries them.
RECURSIVE Match(_, _, _)
RECURSIVE MatchSeq(_, _, _, _, _)
RECURSIVE MatchRep(_, _, _, _)

\* position j of s holds a character of the class cls
InCls(cls, s, j) == j <= Len(s) /\ ((SubSeq(s, j, j) \in cls.cs) # cls.neg)

\* the end of the run of characters of the class cls that starts at position i
RunEnd(cls, s, i) ==
  CHOOSE j \in i..(Len(s) + 1) : ~InCls(cls, s, j) /\ \A k \in i..(j - 1) : InCls(cls, s, k)

\* hi, hi - 1, ..., lo
Downto(hi, lo) == IF hi < lo THEN <<>> ELSE AsSeq([k \in 1..(hi - lo + 1) |-> hi - k + 1])

\* a greedy repetition of a character class whose run ends at runEnd: the
\* longest match first
ClsRepEnds(n, i, runEnd) ==
  Downto(IF n.hi >= 0 /\ i + n.hi < runEnd THEN i + n.hi ELSE runEnd, i + n.lo)

MatchClsRep(n, s, i) == ClsRepEnds(n, i, RunEnd(n.sub, s, i))

Match(n, s, i) ==
  CASE n.t = "lit" ->
         IF i + Len(n.s) - 1 <= Len(s) /\ SubSeq(s, i, i + Len(n.s) - 1) = n.s
         THEN <<i + Len(n.s)>> ELSE <<>>
    [] n.t = "cls" ->
         IF i <= Len(s) /\ ((SubSeq(s, i, i) \in n.cs) # n.neg)
         THEN <<i + 1>> ELSE <<>>
    [] n.t = "seq" -> MatchSeq(n.xs, 1, Len(n.xs), s, i)
    [] n.t = "alt" -> Flatten([k \in 1..Len(n.xs) |-> Match(n.xs[k], s, i)], Len(n.xs))
    [] n.t = "rep" ->
         IF n.sub.t = "cls" THEN MatchClsRep(n, s, i) ELSE MatchRep(n, s, i, 0)
    [] n.t = "bol" -> IF i = 1 THEN <<i>> ELSE <<>>
    [] n.t = "eol" -> IF i = Len(s) + 1 THEN <<i>> ELSE <<>>
    [] n.t = "wb"  ->
         IF (CharAt(s, i - 1) \in WordChars) # (CharAt(s, i) \in WordChars)
         THEN <<i>> ELSE <<>>
    [] n.t = "ahead" -> IF Match(n.sub, s, i) # <<>> THEN <<i>> ELSE <<>>

\* the elements xs[lo], ..., xs[hi] of a sequence pattern, one after the
\* other: the ends, ordered by the choice made for the earlier elements first
MatchSeq(xs, lo, hi, s, i) ==
  CASE lo > hi -> <<i>>
    [] lo = hi -> Match(xs[lo], s, i)
    [] OTHER   ->
         LET ends == MatchSeq(xs, lo, (lo + hi) \div 2, s, i)
         IN  CASE ends = <<>>    -> <<>>
               [] Len(ends) = 1 -> MatchSeq(xs, ((lo + hi) \div 2) + 1, hi, s, ends[1])
               [] OTHER         ->
                    Flatten([j \in 1..Len(ends) |->
                               MatchSeq(xs, ((lo + hi) \div 2) + 1, hi, s, ends[j])],
                            Len(ends))

\* a greedy repetition of a pattern that is not a single character class
MatchRep(n, s, i, count) ==
  LET ends == IF n.hi >= 0 /\ count >= n.hi THEN <<>> ELSE Match(n.sub, s, i)
      more == Flatten([j \in 1..Len(ends) |->
                         IF ends[j] > i THEN MatchRep(n, s, ends[j], count + 1)
                         ELSE <<>>],
                      Len(ends))
  IN  more \o (IF count >= n.lo THEN <<i>> ELSE <<>>)

\* the pattern has a match that starts at position i of s
RECURSIVE MatchesAt(_, _, _)
MatchesAt(n, s, i) ==
  IF n.t = "alt" THEN \E k \in 1..Len(n.xs) : MatchesAt(n.xs[k], s, i)
  ELSE Match(n, s, i) # <<>>

\* the positions from which a search for n in s tries a match, from
\* position from on: a pattern that begins with ^ matches at position 1 only
StartsFrom(n, s, from) ==
  IF n.t = "seq" /\ Len(n.xs) >= 1 /\ n.xs[1].t = "bol"
  THEN {1} \cap (from..(Len(s) + 1))
  ELSE from..(Len(s) + 1)

\* the positions, from position from on, at which a match of n in s starts
Hits(n, s, from) == {p \in StartsFrom(n, s, from) : MatchesAt(n, s, p)}

\* the match of n that starts at position start of s: <<start, end>> (end
\* exclusive), the first end the engine finds
MatchFrom(n, s, start) == <<start, Match(n, s, start)[1]>>

\* the match of n in s that starts at the least position of hits, <<>>
\* when there is none
Leftmost(n, s, hits) == IF hits = {} THEN <<>> ELSE MatchFrom(n, s, Least(hits))

\* the leftmost match of n in s that starts at position from or later
SearchFrom(n, s, from) == Leftmost(n, s, Hits(n, s, from))

\* RegExp.prototype.test
Test(n, s) == \E p \in StartsFrom(n, s, 1) : MatchesAt(n, s, p)

\* RegExp.prototype.test with the i flag (the pattern is written in lower case)
TestI(n, s) == Test(n, ToLower(s))

\* s with the match m (<<start, end>>, or <<>> for none) replaced by rep
ReplaceAt(s, m, rep) ==
  IF Len(s) >= 0 /\ m = <<>> THEN s
  ELSE Slice(s, 0, m[1] - 1) \o rep \o Slice(s, m[2] - 1, Len(s))

\* String.prototype.replace with a regular expression without the g flag
ReplaceFirst(n, s, rep)  == Bind(s, LAMBDA t : ReplaceAt(t, SearchFrom(n, t, 1), rep))

\* the same with the i flag
ReplaceFirstI(n, s, rep) ==
  Bind(s, LAMBDA t : ReplaceAt(t, SearchFrom(n, ToLower(t), 1), rep))

\* String.prototype.replace with the g flag: lowered is s or ToLower(s)
\* (the i flag), hits the positions at which a match starts, done the text
\* produced for the part of s before position from, m the match taken next
RECURSIVE ReplaceAllFrom(_, _, _, _, _, _, _)
ReplaceAllStep(n, s, lowered, rep, hits, from, done, m) ==
  CASE m[2] > m[1] ->
         ReplaceAllFrom(n, s, lowered, rep, hits, m[2],
                        done \o Slice(s, from - 1, m[1] - 1) \o rep)
    [] m[2] = m[1] /\ m[1] > Len(s) ->
         done \o Slice(s, from - 1, m[1] - 1) \o rep
    [] OTHER ->
         ReplaceAllFrom(n, s, lowered, rep, hits, m[1] + 1,
                        done \o Slice(s, from - 1, m[1] - 1) \o rep \o CharAt(s, m[1]))

ReplaceAllFrom(n, s, lowered, rep, hits, from, done) ==
  IF Len(done) >= 0 /\ \A p \in hits : p < from
  THEN done \o Slice(s, from - 1, Len(s))
  ELSE ReplaceAllStep(n, s, lowered, rep, hits, from, done,
                      MatchFrom(n, lowered, Least({p \in hits : p >= from})))

ReplaceAllIn(n, s, lowered, rep) == ReplaceAllFrom(n, s, lowered, rep, Hits(n, lowered, 1), 1, "")
ReplaceAll(n, s, rep)  == Bind(s, LAMBDA t : ReplaceAllIn(n, t, t, rep))
ReplaceAllI(n, s, rep) == Bind(s, LAMBDA t : ReplaceAllIn(n, t, ToLower(t), rep))

(***************************************************************************)
(* lib/scope/d23.ts: the Division 23 dictionary                            *)
(***************************************************************************)
DIV23_SCOPE ==
  << [name |-> "HVAC equipment", synonyms |-> <<"ahu", "air handling unit", "air handler", "hvac unit", "package unit", "rooftop unit", "rtu", "fan coil", "heat pump", "condensing unit">>],
     [name |-> "VRF/VRV system", synonyms |-> <<"vrf", "vrv", "variable refrigerant", "multi split">>],
     [name |-> "Ductwork", synonyms |-> <<"duct", "ducting", "sheet metal">>],
     [name |-> "Air distribution", synonyms |-> <<"diffuser", "register", "grille", "vav", "variable air volume", "terminal unit">>],
     [name |-> "Temperature controls", synonyms |-> <<"controls", "bms", "ddc", "thermostat", "building automation">>],
     [name |-> "Testing & balancing", synonyms |-> <<"testing and balancing", "tab", "air balance", "water balance">>],
     [name |-> "Mechanical insulation", synonyms |-> <<"insulation", "duct wrap", "pipe insulation">>],
     [name |-> "Condensate piping", synonyms |-> <<"condensate", "condensate drain">>],
     [name |-> "Refrigerant piping", synonyms |-> <<"refrigerant piping", "line set", "lineset">>],
     [name |-> "Controls integration", synonyms |-> <<"controls integration", "bms integration">>],
     [name |-> "Demolition", synonyms |-> <<"demo", "remove existing", "removal of existing">>],
     [name |-> "Crane & rigging", synonyms |-> <<"crane", "rigging", "hoisting">>],
     [name |-> "Startup & commissioning", synonyms |-> <<"startup", "start up", "commissioning">>],
     [name |-> "Shop drawings", synonyms |-> <<"shop drawing", "submittal", "submittals">>],
     [name |-> "Title 24 documentation", synonyms |-> <<"title 24", "energy compliance", "comcheck">>],
     [name |-> "Seismic bracing", synonyms |-> <<"seismic", "seismic restraints", "restraint">>],
     [name |-> "BIM/3D coordination", synonyms |-> <<"bim", "3d coordination", "navisworks", "clash detection">>],
     [name |-> "Permits & inspections", synonyms |-> <<"permit", "inspection", "ahj">>],
     [name |-> "Controls programming", synonyms |-> <<"controls programming", "sequence of operations">>] >>

\* text.toLowerCase().replace(/[^a-z0-9\s\.\-]/g, ' ').replace(/\s+/g, ' ').trim()
normalize(text) ==
  Trim(ReplaceAll(Plus(Ws),
                  ReplaceAll(NotCls(LowerChars \cup DigitChars \cup SpaceChars \cup {".", "-"}),
                             ToLower(text), " "),
                  " "))

\* the <<key, canonical name>> assignments of one dictionary item, in the
\* order buildSynonymIndex makes them: the name, then each synonym
IdxEntriesOf(item) ==
  AsSeq([j \in 1..(Len(item.synonyms) + 1) |->
           IF j = 1 THEN <<normalize(item.name), item.name>>
           ELSE <<normalize(item.synonyms[j - 1]), item.name>>])

IdxAssignments(dict) ==
  Flatten([k \in 1..Len(dict) |-> IdxEntriesOf(dict[k])], Len(dict))

\* buildSynonymIndex: the index as the sequence of its <<key, canonical name>>
\* entries. The keys of an object keep the order of their first assignment,
\* and a later assignment to the same key replaces the value in place.
indexOf(asg) ==
  LET first == {p \in 1..Len(asg) : \A q \in 1..(p - 1) : asg[q][1] # asg[p][1]}
      nth(i) == CHOOSE p \in first : Cardinality({q \in first : q < p}) = i - 1
      last(key) == CHOOSE p \in 1..Len(asg) :
                     /\ asg[p][1] = key
                     /\ \A q \in (p + 1)..Len(asg) : asg[q][1] # key
  IN  AsSeq([i \in 1..Cardinality(first) |-> <<asg[nth(i)][1], asg[last(asg[nth(i)][1])][2]>>])

buildSynonymIndex(dict) == indexOf(IdxAssignments(dict))

scopeIndex == buildSynonymIndex(DIV23_SCOPE)

\* the value of the first entry of the index whose position is in hits, "" when none
IdxFirst(idx, hits) ==
  IF hits = {} THEN ""
  ELSE idx[CHOOSE k \in hits : \A h \in hits : k <= h][2]

\* dict[n]: the entry with key n
IdxExact(idx, n) == IdxFirst(idx, {k \in 1..Len(idx) : idx[k][1] = n})

\* the substrings of s
Substrings(s) == {SubSeq(s, i, j) : i \in 1..Len(s), j \in 1..Len(s)}

\* for (const key in dict) if (n.includes(key) && key.length >= 3) return dict[key]
IdxContained(idx, n) ==
  LET inside == Substrings(n)
  IN  IdxFirst(idx, {k \in 1..Len(idx) : Len(idx[k][1]) >= 3 /\ idx[k][1] \in inside})

\* canonize: the canonical name of a phrase, "" for null
canonizeNorm(dictIdx, n) ==
  IF IdxExact(dictIdx, n) # "" THEN IdxExact(dictIdx, n) ELSE IdxContained(dictIdx, n)

canonize(dictIdx, phrase) == canonizeNorm(dictIdx, normalize(phrase))

(***************************************************************************)
(* Worker helpers on strings (POST, lines 186-311)                         *)
(***************************************************************************)
LowSp == Cls(LowerChars \cup SpaceChars)

\* /(base\s*(?:bid|price)|total(?:\s*(?:price|amount))?|bid\s*amount|proposal\s*(?:total|amount)|subtotal|sales\s*tax)/i
isTotalsLike(s) ==
  TestI(Alt(<< Cat(<<Lit("base"), Star(Ws), AnyOf(<<"bid", "price">>)>>),
               Cat(<<Lit("total"), Opt(Cat(<<Star(Ws), AnyOf(<<"price", "amount">>)>>))>>),
               Cat(<<Lit("bid"), Star(Ws), Lit("amount")>>),
               Cat(<<Lit("proposal"), Star(Ws), AnyOf(<<"total", "amount">>)>>),
               Lit("subtotal"),
               Cat(<<Lit("sales"), Star(Ws), Lit("tax")>>) >>), s)

\* stripPrefix: removes "a. ", "1. ", "iv. ", "(a) " prefixes
stripPrefix(s) ==
  Trim(
    \* /^\([a-z0-9]+\)\s*/i
    ReplaceFirstI(Cat(<<Bol, Lit("("), Plus(Cls(LowerChars \cup DigitChars)), Lit(")"), Star(Ws)>>),
    \* /^[ivxIVX]+\.\s*/
    ReplaceFirst(Cat(<<Bol, Plus(Cls({"i","v","x","I","V","X"})), Lit("."), Star(Ws)>>),
    \* /^\d+\.\s*/
    ReplaceFirst(Cat(<<Bol, Plus(Dig), Lit("."), Star(Ws)>>),
    \* /^[a-z]\.\s*/i
    ReplaceFirstI(Cat(<<Bol, Low, Lit("."), Star(Ws)>>), s, ""), ""), ""), ""))

\* capitalizeFirst
capitalizeFirst(s) ==
  IF s = "" THEN s
  ELSE LET c == SubSeq(s, 1, 1)
       IN  (IF c \in LowerChars THEN UpperOfChar[c] ELSE c) \o Slice(s, 1, Len(s))

\* normalizeAlternateTitle: "Alternate: <title>", "" for null
alternateWords(t0) ==
  Trim(ReplaceAll(Plus(Ws),
    \* /^\s*the\s+/i
    ReplaceFirstI(Cat(<<Bol, Star(Ws), Lit("the"), Plus(Ws)>>),
    \* /\bis\s*:?\s*$/i
    Trim(ReplaceFirstI(Cat(<<Wb, Lit("is"), Star(Ws), Opt(Lit(":")), Star(Ws), Eol>>),
    \* /\bthe\s+add\s+alternate\s+(?:to|for)\s+/i
    ReplaceFirstI(Cat(<<Wb, Lit("the"), Plus(Ws), Lit("add"), Plus(Ws), Lit("alternate"),
                        Plus(Ws), AnyOf(<<"to", "for">>), Plus(Ws)>>),
    \* /^\s*(?:\d+\.|[ivxIVX]+\.|\([a-z0-9]+\))\s*/
    ReplaceFirst(Cat(<<Bol, Star(Ws),
                       Alt(<< Cat(<<Plus(Dig), Lit(".")>>),
                              Cat(<<Plus(Cls({"i","v","x","I","V","X"})), Lit(".")>>),
                              Cat(<<Lit("("), Plus(Cls(LowerChars \cup DigitChars)), Lit(")")>>) >>),
                       Star(Ws)>>),
    \* /^\s*at\s*/i
    ReplaceFirstI(Cat(<<Bol, Star(Ws), Lit("at"), Star(Ws)>>),
    \* /^\s*alternate\s*:?\s*/i
    ReplaceFirstI(Cat(<<Bol, Star(Ws), Lit("alternate"), Star(Ws), Opt(Lit(":")), Star(Ws)>>),
    \* /^\s*(the\s+)?(add|deduct)\s+alternate\s*(to|for)?\s*/i
    ReplaceFirstI(Cat(<<Bol, Star(Ws), Opt(Cat(<<Lit("the"), Plus(Ws)>>)),
                        AnyOf(<<"add", "deduct">>), Plus(Ws), Lit("alternate"),
                        Star(Ws), Opt(AnyOf(<<"to", "for">>)), Star(Ws)>>),
    \* /\$\s*<?\s*[0-9][\d,\s]*(?:\.\d{2})?\s*>?/g
    ReplaceAll(Cat(<<Lit("$"), Star(Ws), Opt(Lit("<")), Star(Ws), Dig,
                     Star(Cls(DigitChars \cup {","} \cup SpaceChars)),
                     Opt(Cat(<<Lit("."), Rep(Dig, 2, 2)>>)), Star(Ws), Opt(Lit(">"))>>),
               t0, " "),
    ""), ""), ""), ""), ""), "")), ""), " "))

\* if (!t || /^unit\b/i.test(t)) return null; return `Alternate: ${capitalizeFirst(t)}`
alternateTitle(t) ==
  IF t = "" \/ TestI(Cat(<<Bol, Lit("unit"), Wb>>), t) THEN ""
  ELSE "Alternate: " \o capitalizeFirst(t)

normalizeAlternateTitle(s) ==
  IF Trim(s) = "" THEN "" ELSE alternateTitle(alternateWords(Trim(s)))

\* reduceGeneric: "" for null
reduceLowered(s, l) ==
  IF l = "" THEN ""
  ELSE IF Test(Cat(<<Bol, Lit("equipment"), Plus(Ws), Lit("and"), Plus(Ws), Lit("scope"),
                     Plus(Ws), Lit("of"), Plus(Ws), Lit("work"), Wb>>), l) THEN ""
  ELSE IF Test(Cat(<<Bol, Lit("period"), Plus(Ws), Lit("of"), Plus(Ws), Lit("one"), Wb>>), l) THEN ""
  ELSE IF Test(Cat(<<Bol, Lit("test"), Opt(Lit("ing")), Star(Ws), AnyOf(<<"&", "and">>),
                     Star(Ws), Lit("balanc")>>), l) THEN "Test and balance"
  ELSE s

reduceGeneric(s) == reduceLowered(s, Trim(ToLower(s)))

\* isJunkLine: letterhead lines (company, street, city, phone, license,
\* e-mail, salutation, web address), each only when it stands alone
junkLowered(len, l) ==
  LET sep  == Cls({".", "-"} \cup SpaceChars)
      host == Cls(LowerChars \cup DigitChars \cup {".", "-"})
  IN  \/ len < 2
      \/ /\ len < 40
         /\ Test(Cat(<<Bol, Plus(LowSp), AnyOf(<<"mechanical", "construction", "engineering">>),
                       Star(Ws), Eol>>), l)
      \/ /\ len < 50
         /\ Test(Cat(<<Bol, Plus(Dig), Plus(Ws), Plus(LowSp),
                       AnyOf(<<"ave", "avenue", "st", "street", "rd", "road", "blvd", "dr", "way", "pl", "ct">>),
                       Wb>>), l)
      \/ Test(Cat(<<Bol, Plus(LowSp), Lit(","), Plus(Ws),
                    AnyOf(<<"ca", "california", "ny", "tx", "fl">>), Plus(Ws), Rep(Dig, 5, 5), Eol>>), l)
      \/ Test(Cat(<<Bol, Opt(AnyOf(<<"phone", "fax", "tel", "office">>)), Star(Ws), Opt(Lit(":")),
                    Star(Ws), Opt(Lit("(")), Rep(Dig, 3, 3), Opt(Lit(")")), Opt(sep),
                    Rep(Dig, 3, 3), Opt(sep), Rep(Dig, 4, 4), Star(Ws), Eol>>), l)
      \/ Test(Cat(<<Bol, AnyOf(<<"license", "lic">>), Star(Ws), Opt(AnyOf(<<"number", "no", "#">>)),
                    Opt(Lit(":")), Star(Ws), Plus(Dig), Star(Ws), Eol>>), l)
      \/ Test(Cat(<<Bol, Plus(Cls(LowerChars \cup DigitChars \cup {".", "_", "%", "+", "-"})),
                    Lit("@"), Plus(host), Lit("."), Rep(Low, 2, -1), Eol>>), l)
      \/ /\ len < 50
         /\ Test(Cat(<<Bol, AnyOf(<<"dear", "attn:", "attention:">>), Plus(Ws), Plus(LowSp),
                       Opt(Lit(":")), Star(Ws), Eol>>), l)
      \/ Test(Cat(<<Bol, Alt(<<Lit("www."), Cat(<<Lit("http"), Opt(Lit("s")), Lit("://")>>)>>),
                    Plus(host), Lit("."), Rep(Low, 2, -1), Star(Ws), Eol>>), l)

isJunkLine(s) == junkLowered(Len(Trim(s)), ToLower(Trim(s)))

\* the names normalizeScope never keeps
SkipNames ==
  {"total", "subtotal", "tax", "notes", "note", "bid form", "signature", "thank you",
   "proposal", "drawings", "architectural drawings", "mep drawings", "specifications",
   "schedule", "pricing", "valid for", "lead times", "receipt of order", "warranty",
   "contact", "phone", "email", "address"}

\* the longest name normalizeScope returns
MaxScopeLen == 120

\* normalizeScope: the key of a scope name, "" when the name is dropped
scopeKey(t) ==
  IF t = "" THEN ""
  ELSE IF isJunkLine(t) THEN ""
  ELSE IF ToLower(t) \in SkipNames THEN ""
  ELSE IF Len(t) > MaxScopeLen THEN Slice(t, 0, MaxScopeLen) ELSE t

normalizeScope(s) ==
  scopeKey(Trim(ReplaceAll(Plus(Ws), ReplaceAll(Plus(Cls({"_", "-", "\t"})), s, " "), " ")))

\* normFilter: lower case, bullets and dashes to blanks
normFilter(s) ==
  Trim(ReplaceAll(Plus(Ws), ReplaceAll(Plus(Cls({"-", "*", "_"})), ToLower(s), " "), " "))

\* isDocRefLine: the line refers to other documents
isDocRefLine(line) ==
  Test(Alt(<< Lit("bid documents"), Lit("drawings"), Lit("architectural drawings"),
              Lit("mep drawings"), Lit("plans"),
              Cat(<<Lit("sheet"), Star(Ws), Lit("no.")>>),
              Cat(<<Lit("sheet"), Opt(Lit("s"))>>),
              Cat(<<Lit("project"), Star(Ws), Lit("name")>>),
              Cat(<<Lit("specification"), Opt(Lit("s"))>>),
              Cat(<<Lit("spec"), Star(Ws), Lit("section")>>),
              Cat(<<Lit("division"), Star(Ws), Plus(Dig)>>),
              Lit("addendum"), Lit("rfi"),
              Cat(<<Lit("submittal"), Opt(Lit("s"))>>),
              Lit("schedule"),
              Cat(<<Lit("proposal"), Opt(Cat(<<Star(Ws), Lit("#")>>))>>),
              Cat(<<Lit("page"), Star(Ws), Plus(Dig)>>) >>), normFilter(line))

\* isNarrativeLine: the line is narrative prose
isNarrativeLine(line) ==
  Test(Alt(<< Lit("thank you"), Lit("we are assuming"), Lit("we assume"),
              Cat(<<Lit("assum"), AnyOf(<<"e", "ptions">>)>>),
              Lit("shall"),
              Cat(<<Lit("will"), Plus(Ws), Lit("provide")>>),
              Lit("please"), Lit("sincerely"),
              Cat(<<Lit("valid"), Plus(Ws), Lit("for"), Plus(Ws), Plus(Dig), Plus(Ws), Lit("days")>>),
              Lit("warranty"),
              Cat(<<Lit("lead"), Star(Ws), Lit("time"), Opt(Lit("s"))>>),
              Lit("due to"), Lit("this proposal is based") >>), normFilter(line))

\* isParentHeader: /(including the following|as follows|to include):\s*$/i
isParentHeader(s) ==
  TestI(Cat(<<AnyOf(<<"including the following", "as follows", "to include">>),
              Lit(":"), Star(Ws), Eol>>), s)

\* isBoilerplateLine: business boilerplate that is never scope
isBoilerplateLine(line) ==
  LET w(a, b) == Cat(<<Lit(a), Plus(Ws), Lit(b)>>)
      w3(a, b, c) == Cat(<<Lit(a), Plus(Ws), Lit(b), Plus(Ws), Lit(c)>>)
  IN
  Test(Alt(<< w3("reserves", "the", "right"),
              Cat(<<Lit("lock"), Star(Ws), Lit("in"), Plus(Ws), Lit("pricing")>>),
              w3("make", "every", "effort"), w("adequate", "access"), w("break", "area"),
              w("laydown", "space"), Lit("workmanship"), w3("free", "from", "defects"),
              Cat(<<w3("system", "in", "its"), Plus(Ws), w3("entirety", "is", "properly"),
                    Plus(Ws), Lit("serviced")>>),
              Cat(<<w3("file", "in", "cad"), Plus(Ws), Lit("format")>>),
              Lit("navis"), w3("upload", "per", "week"), w("ftp", "site"),
              Cat(<<w3("parking", "and", "material"), Plus(Ws), Lit("staging")>>),
              w("equipment", "storage"),
              Cat(<<Lit("equipment"), Plus(Ws), Lit("rental"), Opt(Lit("s")), Plus(Ws),
                    Lit("as"), Plus(Ws), Lit("required")>>),
              w3("provide", "construction", "services"),
              Cat(<<w("permit", "plan"), Star(Ws), Lit("check")>>),
              w("traffic", "control"),
              Cat(<<Lit("close"), Star(Ws), Lit("out"), Plus(Ws), Lit("documentation")>>),
              Cat(<<Lit("clean"), Opt(Cls({"-", " "})), Lit("up")>>),
              w("general", "conditions"),
              Cat(<<w3("equipment", "and", "scope"), Plus(Ws), w("of", "work")>>),
              Cat(<<w3("period", "of", "one"), Star(Ws), Lit("("), Star(Ws), Lit("1"),
                    Star(Ws), Lit(")"), Star(Ws), Lit("year")>>),
              Cat(<<Lit("warrant"), AnyOf(<<"y", "ies">>), Plus(Ws), w3("will", "be", "as"),
                    Plus(Ws), Lit("stated")>>) >>), normFilter(line))

\* domainKeep: the line names work scope (scope verbs, money or quantities)
domainKeep(line) ==
  LET l == ToLower(line)
      exclude ==
        Alt(<< Lit("proposal"), Lit("letterhead"), Lit("address"), Lit("phone"), Lit("email"),
               Lit("fax"), Lit("license"), Lit("terms"),
               Cat(<<Lit("valid"), Star(Ws), Lit("for")>>), Lit("covid"), Lit("thank you"),
               Lit("signature"), Lit("receipt"), Lit("submittal log"), Lit("attn:"),
               Cat(<<Lit("dear"), Ws>>), Lit("re:"), Lit("subject:"), Lit("sincerely"),
               Lit("warranty"), Cat(<<Lit("page"), Plus(Ws), Plus(Dig), Eol>>) >>)
      scopeIndicators ==
        AnyOf(<<"install", "furnish", "provide", "supply", "demolish", "remove", "repair",
                "replace", "construct", "build", "fabricate", "erect", "place", "pour", "apply",
                "coat", "paint", "finish", "seal", "waterproof", "insulate", "test", "inspect",
                "commission", "balance", "startup", "certif", "equipment", "material", "system",
                "unit", "assembly", "component", "schedule", "quantity", "specification">>)
      moneyOrQty ==
        Alt(<< Cat(<<Lit("$"), Opt(Ws), Dig>>),
               Cat(<<Plus(Dig), Opt(Ws),
                     Alt(<<Lit("ea"), Lit("each"), Lit("qty"), Cat(<<Lit("pc"), Opt(Lit("s"))>>),
                           Lit("sf"), Lit("lf"), Lit("sy"), Lit("cy"), Lit("cf"), Lit("ls"),
                           Lit("ton"), Lit("gal"), Lit("lb")>>), Wb>>) >>)
  IN  /\ Test(Low, l)
      /\ ~isJunkLine(line)
      /\ ~Test(exclude, l)
      /\ (Test(scopeIndicators, l) \/ Test(moneyOrQty, l))

\* detectSection: the section a header line opens, "" for null
sectionOf(l) ==
  LET bw == Cat(<<Bol, Star(Ws)>>)
      wstar == Star(Cls(WordChars))
  IN  IF Test(Alt(<< Cat(<<Wb, Lit("scope"), Wb>>),
                     Cat(<<Lit("scope"), Star(Ws), Lit("of"), Star(Ws), Lit("work")>>),
                     Cat(<<bw, Lit("sc"), Opt(Lit("o")), Lit("pe")>>),
                     Cat(<<Lit("general"), Star(Ws), AnyOf(<<"mechanical", "hvac">>), Star(Ws),
                           Lit("inclusion"), Opt(Lit("s"))>>),
                     Cat(<<bw, Lit("work"), Star(Ws), Lit("include"), Opt(Lit("d"))>>) >>), l)
      THEN "scope"
      ELSE IF Test(Alt(<< Cat(<<Wb, Lit("inclusion"), Opt(Lit("s")), Wb>>),
                          Cat(<<bw, Lit("inclu"), wstar>>),
                          Cat(<<bw, Lit("inclusio"), wstar>>),
                          Cat(<<bw, Lit("include"), Opt(Lit("d")), Wb>>),
                          Cat(<<Lit("what"), Opt(Lit("'")), Opt(Lit("s")), Star(Ws), Lit("included")>>) >>), l)
      THEN "inclusions"
      ELSE IF Test(Alt(<< Cat(<<Wb, Lit("exclusion"), Opt(Lit("s")), Wb>>),
                          Cat(<<bw, Lit("exclu"), wstar>>),
                          Cat(<<bw, Lit("exclude"), Opt(Lit("d")), Wb>>),
                          Cat(<<Lit("not"), Star(Ws), Lit("included")>>),
                          Cat(<<Lit("what"), Opt(Lit("'")), Opt(Lit("s")), Star(Ws), Lit("excluded")>>) >>), l)
      THEN "exclusions"
      ELSE IF Test(Alt(<< Cat(<<Wb, Lit("allowance"), Opt(Lit("s")), Wb>>),
                          Cat(<<bw, Lit("allowan"), wstar>>) >>), l)
      THEN "allowances"
      ELSE IF Test(Alt(<< Cat(<<Wb, Lit("alternate"), Opt(Lit("s")), Wb>>),
                          Cat(<<bw, Lit("alternat"), wstar>>) >>), l)
      THEN "alternates"
      ELSE IF Test(Alt(<< Cat(<<Lit("equipment"), Star(Ws), AnyOf(<<"list", "schedule">>)>>),
                          Cat(<<Lit("bill"), Star(Ws), Lit("of"), Star(Ws), Lit("materials")>>),
                          Cat(<<Lit("schedule"), Star(Ws), Lit("of"), Star(Ws), Lit("values")>>),
                          Cat(<<Lit("materials"), Star(Ws), Lit("list")>>) >>), l)
      THEN "equipment"
      ELSE IF Test(Alt(<< Cat(<<Wb, Lit("services"), Wb>>), Lit("commissioning"),
                          Cat(<<Lit("testing"), Star(Ws), Opt(Lit("&")), Star(Ws), Lit("balancing")>>),
                          Cat(<<bw, Lit("clarification"), Opt(Lit("s")), Wb>>),
                          Cat(<<bw, Lit("note"), Opt(Lit("s")), Wb>>) >>), l)
      THEN "services"
      ELSE ""

detectSection(line) == sectionOf(Trim(ToLower(line)))

\* String.prototype.split on one separator character
SplitChar(text, ch) ==
  LET seps     == {p \in 1..Len(text) : SubSeq(text, p, p) = ch}
      count    == Cardinality(seps)
      sepAt(i) == IF i = 0 THEN 0
                  ELSE IF i = count + 1 THEN Len(text) + 1
                  ELSE CHOOSE p \in seps : Cardinality({q \in seps : q < p}) = i - 1
  IN  AsSeq([i \in 1..(count + 1) |->
               IF sepAt(i) - 1 < sepAt(i - 1) + 1 THEN ""
               ELSE SubSeq(text, sepAt(i - 1) + 1, sepAt(i) - 1)])

\* text.split(/\r?\n/): the pieces between the line feeds, without the
\* carriage return that stands directly before a line feed
withoutCr(pieces) ==
  AsSeq([i \in 1..Len(pieces) |->
           IF i < Len(pieces) /\ Len(pieces[i]) >= 1
              /\ SubSeq(pieces[i], Len(pieces[i]), Len(pieces[i])) = "\r"
           THEN SubSeq(pieces[i], 1, Len(pieces[i]) - 1)
           ELSE pieces[i]])

SplitLines(text) == withoutCr(SplitChar(text, "\n"))

\* line.split(',')[0]
FirstColumn(line) == SplitChar(line, ",")[1]

\* /(\b(add|deduct)\s+alternate\b|^alternate\b|\bunit\s+is\s*:|\bat\s+fc\b|\$\s*\d)/i
altLikePattern ==
  Alt(<< Cat(<<Wb, AnyOf(<<"add", "deduct">>), Plus(Ws), Lit("alternate"), Wb>>),
         Cat(<<Bol, Lit("alternate"), Wb>>),
         Cat(<<Wb, Lit("unit"), Plus(Ws), Lit("is"), Star(Ws), Lit(":")>>),
         Cat(<<Wb, Lit("at"), Plus(Ws), Lit("fc"), Wb>>),
         Cat(<<Lit("$"), Star(Ws), Dig>>) >>)

\* /^\s*(?:[-*•]|\d+\.|[A-Z][\w\s]{2,})\s*(.+)$/ : the text captured
\* after a bullet, an enumerator or a leading capitalised phrase; the line
\* itself when the pattern does not match
bulletPattern ==
  Cat(<<Bol, Star(Ws),
        Alt(<< Cls({"-", "*"}),
               Cat(<<Plus(Dig), Lit(".")>>),
               Cat(<<Cls(UpperChars), Rep(Cls(WordChars \cup SpaceChars), 2, -1)>>) >>),
        Star(Ws)>>)

\* the part of the line from the first of the ends that leaves a character
restFrom(line, ends) ==
  LET ok == {j \in 1..Len(ends) : ends[j] <= Len(line)}
  IN  IF ok = {} THEN line ELSE SubSeq(line, ends[Least(ok)], Len(line))

bulletRest(line) == restFrom(line, Match(bulletPattern, line, 1))

\* a totals line is never a scope candidate
\* /(^|\b)(base\s*(?:bid|price)|total(?:\s*(?:price|amount))?|bid\s*amount|proposal\s*(?:total|amount))\b/i
totalsLinePattern ==
  Cat(<< Alt(<<Bol, Wb>>),
         Alt(<< Cat(<<Lit("base"), Star(Ws), AnyOf(<<"bid", "price">>)>>),
                Cat(<<Lit("total"), Opt(Cat(<<Star(Ws), AnyOf(<<"price", "amount">>)>>))>>),
                Cat(<<Lit("bid"), Star(Ws), Lit("amount")>>),
                Cat(<<Lit("proposal"), Star(Ws), AnyOf(<<"total", "amount">>)>>) >>),
         Wb >>)

\* extractCandidatesFromText, table branch: what the first column of one
\* row contributes
tableRowOf(first, alt, n) ==
  CASE ~domainKeep(first) -> <<>>
    [] isDocRefLine(first) \/ isNarrativeLine(first) \/ isBoilerplateLine(first) -> <<>>
    [] TestI(altLikePattern, first) /\ alt # "" -> <<alt>>
    [] n # "" /\ Test(Cls(LowerChars \cup UpperChars), n) /\ Len(n) >= 2 -> <<n>>
    [] OTHER -> <<>>

firstOf(first) == tableRowOf(first, normalizeAlternateTitle(first), normalizeScope(first))

tableRow(line) == firstOf(Trim(FirstColumn(line)))

extractTableRows(lines) ==
  Flatten([k \in 1..Len(lines) |-> tableRow(lines[k])], Len(lines))

\* extractCandidatesFromText, prose branch: what one line contributes when
\* section is the current section
proseLineOf(candRaw, section, alt, n) ==
  CASE TestI(totalsLinePattern, candRaw) -> <<>>
    [] isDocRefLine(candRaw) \/ isNarrativeLine(candRaw) \/ isBoilerplateLine(candRaw) -> <<>>
    [] section = "alternates" \/ TestI(altLikePattern, candRaw) ->
         (IF alt # "" THEN <<alt>> ELSE <<>>)
    [] section \notin {"scope", "inclusions", "equipment"} -> <<>>
    [] ~domainKeep(candRaw) -> <<>>
    [] n # "" /\ Test(Cls(LowerChars \cup UpperChars), n) /\ Len(n) >= 3 -> <<n>>
    [] OTHER -> <<>>

candRawOf(candRaw, section) ==
  proseLineOf(candRaw, section, normalizeAlternateTitle(candRaw), normalizeScope(candRaw))

proseLine(line, section) == candRawOf(bulletRest(line), section)

\* the current section at line k: the one opened by the last header line
\* before it ("" when there is none); heads[j] is detectSection(lines[j])
sectionAt(heads, k) ==
  LET opened == {j \in 1..(k - 1) : heads[j] # ""}
  IN  IF opened = {} THEN ""
      ELSE heads[CHOOSE j \in opened : \A h \in opened : j >= h]

\* extractCandidatesFromText, prose branch: bullet lines of the scope,
\* inclusions and equipment sections, and alternates anywhere; a header
\* line only sets the section
proseOf(lines, heads) ==
  Flatten([k \in 1..Len(lines) |->
             IF heads[k] # "" THEN <<>>
             ELSE proseLine(lines[k], sectionAt(heads, k))],
          Len(lines))

extractProseLines(lines) ==
  proseOf(lines, AsSeq([k \in 1..Len(lines) |-> detectSection(lines[k])]))

\* extractCandidatesFromText
extractCandidatesFromText(name, text) ==
  IF TestI(Lit("table"), name) \/ Includes(text, ",")
  THEN extractTableRows(SplitLines(text))
  ELSE extractProseLines(SplitLines(text))

(***************************************************************************)
(* Candidate Scope List (POST, lines 396-500)                              *)
(***************************************************************************)
\* the elements of a sequence as a set
Range(seq) == {seq[i] : i \in 1..Len(seq)}

\* the entries of seq whose key (keys[p] for seq[p]) occurs at no earlier
\* position, in their order
UniqueBy(seq, keys) ==
  LET first  == {p \in 1..Len(seq) : \A q \in 1..(p - 1) : keys[q] # keys[p]}
      nth(i) == CHOOSE p \in first : Cardinality({q \in first : q < p}) = i - 1
  IN  AsSeq([i \in 1..Cardinality(first) |-> seq[nth(i)]])

\* new Set(seq) / "if (!arr.includes(x)) arr.push(x)" over a whole list:
\* insertion order, no duplicate
Unique(seq) == UniqueBy(seq, seq)

\* Set.add
AddOnce(seq, e) == IF e \in Range(seq) THEN seq ELSE Append(seq, e)

\* canonize(scopeIndex, s) || s
orSelf(c, s) == IF c # "" THEN c ELSE s

canonOrSelf(s) == orSelf(canonize(scopeIndex, s), s)

\* a heuristic candidate as it enters candidateUnionSet (none when dropped)
keepReduced(reduced) ==
  IF reduced = "" \/ isParentHeader(reduced) THEN <<>> ELSE <<reduced>>

cleanedCandidate(found) == keepReduced(reduceGeneric(stripPrefix(found)))

\* the heuristic candidates of one text fragment
cleanedCandidates(found) ==
  Flatten([k \in 1..Len(found) |-> cleanedCandidate(found[k])], Len(found))

textsCandidates(texts) ==
  Flatten([k \in 1..Len(texts) |->
             cleanedCandidates(extractCandidatesFromText(texts[k].name, texts[k].text))],
          Len(texts))

\* byBidDocs[b.id] || { texts: [] }
textsOf(byBidDocs, bidId) ==
  IF bidId \in DOMAIN byBidDocs THEN byBidDocs[bidId] ELSE <<>>

\* candidateUnionSet: the heuristic candidates of all bids, first seen first
candidateUnionSet(bidList, byBidDocs) ==
  Unique(Flatten([k \in 1..Len(bidList) |-> textsCandidates(textsOf(byBidDocs, bidList[k].id))],
                 Len(bidList)))

\* the image of a sequence of names under canonOrSelf
canonAll(names) == AsSeq([i \in 1..Len(names) |-> canonOrSelf(names[i])])

\* the entries of a sequence of strings that are not empty
nonEmpty(names) == SelectSeq(names, LAMBDA n : n # "")

\* /\balternat(e|es|e:)|\b(add|deduct)\s+alternate\b|\$\s*\d/i
hasAltSignal(s) ==
  TestI(Alt(<< Cat(<<Wb, Lit("alternat"), AnyOf(<<"e", "es", "e:">>)>>),
               Cat(<<Wb, AnyOf(<<"add", "deduct">>), Plus(Ws), Lit("alternate"), Wb>>),
               Cat(<<Lit("$"), Star(Ws), Dig>>) >>), s)

\* the aggregator's proposals after alternate normalisation
proposedOf(scopeItems) ==
  AsSeq([i \in 1..Len(scopeItems) |->
           IF hasAltSignal(scopeItems[i]) THEN normalizeAlternateTitle(scopeItems[i])
           ELSE scopeItems[i]])

\* the proposals that are pushed to canonicalCandidates
proposedOne(stripped) ==
  IF isParentHeader(stripped) THEN <<>> ELSE <<canonOrSelf(stripped)>>

proposedCanon(proposed) ==
  Flatten([k \in 1..Len(proposed) |-> proposedOne(stripPrefix(proposed[k]))], Len(proposed))

\* the cap of finalizeCandidates
MaxCandidates == 100

MinCandidateLen == 3

MaxCandidateLen == 150

\* finalizeCandidates, one entry: the name it pushes (none when filtered)
finalizeAlt(s0, s1, isAlt, altNorm) ==
  IF \/ isTotalsLike(s0) \/ isJunkLine(s0) \/ isParentHeader(s0)
     \/ isDocRefLine(s0) \/ isNarrativeLine(s0)
     \/ Len(s0) < MinCandidateLen \/ Len(s0) > MaxCandidateLen
     \/ (isAlt /\ altNorm = "")
  THEN <<>>
  ELSE <<capitalizeFirst(IF isAlt THEN altNorm ELSE s1)>>

\* s1 is reduceGeneric(s0) || s0
finalizeReduced(s0, s1) ==
  finalizeAlt(s0, s1, TestI(Cat(<<Wb, Lit("alternate"), Wb>>), s1), normalizeAlternateTitle(s1))

finalizeOne(s0) == finalizeReduced(s0, orSelf(reduceGeneric(s0), s0))

\* finalizeCandidates: filters, re-normalised alternates, capitalised,
\* unique up to case, at most MaxCandidates (the loop stops at the cap)
firstCandidates(out) == IF Len(out) > MaxCandidates THEN SubSeq(out, 1, MaxCandidates) ELSE out

uniqueLower(pushed) == UniqueBy(pushed, AsSeq([k \in 1..Len(pushed) |-> ToLower(pushed[k])]))

finalizeCandidates(arr) ==
  firstCandidates(uniqueLower(Flatten([k \in 1..Len(arr) |-> finalizeOne(arr[k])], Len(arr))))

\* candidateUnionFinal: the Candidate Scope List of a run. agg is the
\* outcome of the aggregation call: [ok |-> FALSE] when the call or the
\* handling of its answer throws, else [ok |-> TRUE, scope_items |-> the
\* strings of the parsed answer (none when the answer is not JSON)]
prioritizedOf(heuristic, proposed) ==
  Unique(canonAll(nonEmpty(AsSeq([i \in 1..Len(proposed) |-> stripPrefix(proposed[i])])))
           \o Unique(heuristic \o proposedCanon(proposed)))

\* a failed aggregation leaves no candidate at all
prioritizedOrNone(union, agg) ==
  IF agg.ok /\ agg.scope_items # <<>>
  THEN prioritizedOf(Unique(canonAll(union)), proposedOf(agg.scope_items))
  ELSE <<>>

prioritizedWith(union, agg) ==
  prioritizedOf(Unique(canonAll(union)), IF agg.ok THEN proposedOf(agg.scope_items) ELSE <<>>)

candidateUnionFinalOf(bidList, byBidDocs, agg) ==
  Bind(Bind(candidateUnionSet(bidList, byBidDocs), LAMBDA union : prioritizedWith(union, agg)),
       finalizeCandidates)

(***************************************************************************)
(* Reconciler (POST, lines 535-547 and 810-926)                            *)
(***************************************************************************)
\* An item of the oracle's answer. has* tell whether the JSON object has
\* the field with the right type (name: string, candidate_index: number,
\* status: string, price: number, evidence: string).
Item(hasName, name, hasIdx, idx, hasStatus, status, hasPrice, price, evidence) ==
  [hasName |-> hasName, name |-> name, hasIdx |-> hasIdx, idx |-> idx,
   hasStatus |-> hasStatus, status |-> status, hasPrice |-> hasPrice, price |-> price,
   evidence |-> evidence]

\* { name, status: 'not_specified', price: null }
PrefillItem(name) == Item(TRUE, name, FALSE, 0, TRUE, "not_specified", FALSE, 0, "")

\* { name, status: 'not_specified', price } of an injected alternate
AlternateItem(name, price) == Item(TRUE, name, FALSE, 0, TRUE, "not_specified", TRUE, price, "")

\* the qualifications of an answer: the six arrays (a field that is
\* absent or not an array reads as the empty array wherever it is used)
QualFields == {"includes", "excludes", "allowances", "alternates", "payment_terms", "fine_print"}

emptyQual == [f \in QualFields |-> <<>>]

\* the fields of an answer besides items: total (typeof total === 'number'),
\* qualifications and unmapped (absent reads as the empty array)
Extras(hasTotal, total, qualifications, unmapped) ==
  [hasTotal |-> hasTotal, total |-> total, qualifications |-> qualifications,
   unmapped |-> unmapped]

noExtras == Extras(FALSE, 0, emptyQual, <<>>)

\* a Map as the sequence of its <<key, value>> entries in insertion order
MapHas(m, key) == \E i \in 1..Len(m) : m[i][1] = key

MapGet(m, key) == m[CHOOSE i \in 1..Len(m) : m[i][1] = key][2]

MapSet(m, key, val) ==
  IF MapHas(m, key)
  THEN AsSeq([i \in 1..Len(m) |-> IF m[i][1] = key THEN <<key, val>> ELSE m[i]])
  ELSE Append(m, <<key, val>>)

MapValues(m) == AsSeq([i \in 1..Len(m) |-> m[i][2]])

\* the Map that results from map.set(keys[k], vals[k]) for k = 1, 2, ...:
\* the keys in the order of their first set, each with its last value
MapOfSets(keys, vals) ==
  LET ks == Unique(keys)
      last(key) == CHOOSE k \in 1..Len(keys) :
                     keys[k] = key /\ \A q \in (k + 1)..Len(keys) : keys[q] # key
  IN  AsSeq([i \in 1..Len(ks) |-> <<ks[i], vals[last(ks[i])]>>])

\* candidateNormToDisplay: normalised canonical name -> displayed candidate
\* (a candidate whose normalised name is empty sets nothing)
normToDisplayOf(cands, norms) ==
  LET set   == {k \in 1..Len(cands) : norms[k] # ""}
      nth(i) == CHOOSE k \in set : Cardinality({q \in set : q < k}) = i - 1
  IN  IF Len(norms) = 0 THEN <<>>
      ELSE MapOfSets(AsSeq([i \in 1..Cardinality(set) |-> norms[nth(i)]]),
                     AsSeq([i \in 1..Cardinality(set) |-> cands[nth(i)]]))

candidateNormToDisplay(cands) ==
  normToDisplayOf(cands, AsSeq([k \in 1..Len(cands) |-> normalizeScope(canonOrSelf(cands[k]))]))

\* mapToCandidate: dictionary lookup of a name, "" for null;
\* m is candidateNormToDisplay
lookUp(m, norm) ==
  IF norm = "" THEN "" ELSE IF MapHas(m, norm) THEN MapGet(m, norm) ELSE ""

mapToCandidate(m, name) == lookUp(m, normalizeScope(canonOrSelf(name)))

STOPWORDS ==
  {"furnish", "install", "provide", "provided", "providing", "supply", "supplied", "includes",
   "including", "include", "with", "and", "or", "for", "of", "the", "a", "an", "by", "others",
   "new", "existing", "system", "systems", "unit", "units", "type", "per", "as", "shown", "on",
   "perplans", "plan", "plans", "above", "scope", "work", "complete", "all"}

BRAND_WORDS == {"daikin", "marley", "greenheck", "panasonic", "bacnet"}

\* normForMatch: lower case, parentheses dropped, letters and slashes only
normForMatch(s) ==
  Trim(ReplaceAll(Plus(Ws),
         ReplaceAll(NotCls(LowerChars \cup SpaceChars \cup {"/"}),
           ReplaceAll(Cat(<<Lit("("), Star(NotCls({")"})), Lit(")")>>), ToLower(s), " "),
           " "),
         " "))

\* w.replace(/(ers|ies|s)$/, '')
stem(w) == ReplaceFirst(Cat(<<AnyOf(<<"ers", "ies", "s">>), Eol>>), w, "")

\* tokens: the stemmed significant words of a name
significant(words) ==
  {stem(words[i]) : i \in {j \in 1..Len(words) :
     Len(words[j]) > 2 /\ words[j] \notin STOPWORDS /\ words[j] \notin BRAND_WORDS}}

tokens(s) == significant(SplitChar(normForMatch(s), " "))

\* jaccard(a, b) as the fraction <<|a & b|, |a | b| or 1>>
jaccard(a, b) ==
  LET u == Cardinality(a \cup b)
  IN  <<Cardinality(a \cap b), IF u = 0 THEN 1 ELSE u>>

\* the acceptance threshold of nearestCandidate, best >= 0.2, as a fraction
JaccardNum == 1

JaccardDen == 5

\* nearestCandidate: fuzzy match of a name, "" for null. The loop returns the
\* first candidate whose tokens contain all tokens of the name; else it keeps
\* the first candidate of the highest score, which must reach the threshold.
\* tbs[k] is tokens(candidateArray[k]).
nearestByTokens(candidateArray, tbs, ta) ==
  LET scores == AsSeq([k \in 1..Len(candidateArray) |-> jaccard(ta, tbs[k])])
      whole  == {k \in 1..Len(candidateArray) : ta # {} /\ ta \subseteq tbs[k]}
      more(a, b) == a[1] * b[2] > b[1] * a[2]
      best   == {k \in 1..Len(candidateArray) :
                   /\ scores[k][1] > 0
                   /\ \A q \in 1..(k - 1) : more(scores[k], scores[q])
                   /\ \A q \in (k + 1)..Len(candidateArray) : ~more(scores[q], scores[k])}
  IN  CASE whole # {} -> candidateArray[Least(whole)]
        [] whole = {} /\ best # {} ->
             LET k == CHOOSE k \in best : TRUE
             IN  IF scores[k][1] * JaccardDen >= JaccardNum * scores[k][2]
                 THEN candidateArray[k] ELSE ""
        [] OTHER -> ""

nearestCandidate(candidateArray, tbs, name) == nearestByTokens(candidateArray, tbs, tokens(name))

\* Number(digits) of a string of decimal digits, blanks and commas removed
RECURSIVE DigitsValue(_, _, _)
DigitsValue(s, k, acc) ==
  IF k > Len(s) THEN acc
  ELSE LET c == SubSeq(s, k, k)
       IN  IF c \in DigitChars
           THEN DigitsValue(s, k + 1,
                  acc * 10 + (CHOOSE d \in 0..9 : SubSeq("0123456789", d + 1, d + 1) = c))
           ELSE DigitsValue(s, k + 1, acc)

\* parseAlt: the title and the signed amount of an alternate line;
\* [ok |-> FALSE] for null. The amounts of the modelled documents have no
\* cents, so Number() of the captured text is the value of its digits
\* before the decimal point.
moneyPrefix == Cat(<<Lit("$"), Star(Ws), Opt(Lit("<")), Star(Ws)>>)

moneyAmount ==
  Cat(<<Dig, Star(Cls(DigitChars \cup {","} \cup SpaceChars)), Opt(Cat(<<Lit("."), Rep(Dig, 2, 2)>>))>>)

\* the text captured by the group of the match m: the capture starts where
\* the prefix ends (the prefix is followed by a digit)
capturedAmount(text, m) ==
  Slice(text,
        (CHOOSE e \in m[1]..m[2] :
           /\ e \in Range(Match(moneyPrefix, text, m[1]))
           /\ m[2] \in Range(Match(moneyAmount, text, e))) - 1,
        m[2] - 1)

signed(neg, num) == IF neg THEN 0 - num ELSE num

\* m is the match of /\$\s*<?\s*([0-9][\d,\s]*(?:\.\d{2})?)/ in text
parseAltAt(text, m) ==
  IF m = <<>> THEN [ok |-> FALSE]
  ELSE [ok |-> TRUE,
        name |-> orSelf(normalizeAlternateTitle(text), "Alternate"),
        price |-> signed(TestI(Alt(<< Cat(<<Wb, Lit("deduct"), Wb>>),
                                      Cat(<<Lit("<"), Star(Ws), Lit("$")>>) >>), text),
                         DigitsValue(SplitChar(capturedAmount(text, m), ".")[1], 1, 0))]

parseAltText(text) == parseAltAt(text, SearchFrom(Cat(<<moneyPrefix, moneyAmount>>), text, 1))

parseAlt(s) == parseAltText(Trim(s))

(***************************************************************************)
(* Totals found in the evidence text (POST, lines 153-185)                  *)
(***************************************************************************)
\* a number or null: [has |-> FALSE, val |-> 0] is null
NoNumber == [has |-> FALSE, val |-> 0]

Number(n) == [has |-> TRUE, val |-> n]

\* s.replace(/[,\s]/g, '')
withoutSeparators(s) ==
  ConcatRange([k \in 1..Len(s) |->
                 IF SubSeq(s, k, k) \in ({","} \cup SpaceChars) THEN "" ELSE SubSeq(s, k, k)],
              1, Len(s), "")

\* m is the match of /\$?(\d+(?:\.\d{2})?)/ in cleaned. The amounts of the
\* modelled documents have no cents, so Number() of the captured text is
\* the value of its digits before the decimal point.
parseMoneyAt(cleaned, m) ==
  IF m = <<>> THEN NoNumber
  ELSE Number(DigitsValue(SplitChar(Slice(cleaned, m[1] - 1, m[2] - 1), ".")[1], 1, 0))

parseMoneyOf(cleaned) ==
  parseMoneyAt(cleaned,
               SearchFrom(Cat(<<Opt(Lit("$")), Plus(Dig), Opt(Cat(<<Lit("."), Rep(Dig, 2, 2)>>))>>),
                          cleaned, 1))

parseMoney(s) == Bind(withoutSeparators(s), parseMoneyOf)

\* group 1 of the primary pattern of findTotalInText, in lower case
totalKeyword ==
  Alt(<< Cat(<<Lit("total"), Star(Ws), Opt(Cat(<<Lit("base"), Star(Ws)>>)),
               AnyOf(<<"bid", "price", "amount">>)>>),
         Cat(<<Lit("base"), Star(Ws), AnyOf(<<"bid", "price">>), Star(Ws), Opt(Lit("total"))>>),
         Cat(<<Lit("bid"), Star(Ws), AnyOf(<<"amount", "price">>)>>),
         Cat(<<Lit("proposal"), Star(Ws), AnyOf(<<"total", "amount", "price">>)>>),
         Cat(<<Lit("contract"), Star(Ws), Lit("amount")>>) >>)

\* what precedes group 2: (keyword)\s*[:\-]?\s*\$?\s*
totalLead ==
  Cat(<<totalKeyword, Star(Ws), Opt(Cls({":", "-"})), Star(Ws), Opt(Lit("$")), Star(Ws)>>)

\* group 2: [0-9][\d,]*(?:\.\d{2})?
totalAmount ==
  Cat(<<Dig, Star(Cls(DigitChars \cup {","})), Opt(Cat(<<Lit("."), Rep(Dig, 2, 2)>>))>>)

\* the text of group 2 of the match m of the primary pattern: the lead has
\* no digit, so the group starts where the lead ends
totalCaptured(lowered, m) ==
  Slice(lowered,
        (CHOOSE e \in m[1]..m[2] :
           /\ e \in Range(Match(totalLead, lowered, m[1]))
           /\ m[2] \in Range(Match(totalAmount, lowered, e))) - 1,
        m[2] - 1)

\* while ((m = re.exec(text)) !== null) { ... best = val }: the last match
\* of the global pattern wins
RECURSIVE lastTotalFrom(_, _, _)
lastTotalStep(lowered, m, best) ==
  IF m = <<>> THEN best
  ELSE lastTotalFrom(lowered, m[2],
                     Bind(parseMoney(totalCaptured(lowered, m)),
                          LAMBDA val : IF val.has THEN val ELSE best))

lastTotalFrom(lowered, from, best) ==
  lastTotalStep(lowered, SearchFrom(Cat(<<totalLead, totalAmount>>), lowered, from), best)

\* the keyword of the fallback
totalLineKeyword ==
  Alt(<< Cat(<<Lit("base"), Star(Ws), Lit("bid")>>),
         Cat(<<Lit("base"), Star(Ws), Lit("price")>>),
         Cat(<<Lit("total"), Star(Ws), Lit("bid")>>),
         Cat(<<Lit("total"), Star(Ws), Lit("price")>>),
         Cat(<<Lit("bid"), Star(Ws), Lit("amount")>>),
         Cat(<<Lit("proposal"), Star(Ws), AnyOf(<<"total", "amount", "price">>)>>) >>)

\* m2 is the match of /\$\s*([0-9][\d,]*(?:\.\d{2})?)/ in the line: the
\* value of its group (parseMoney skips the $ and the blanks before it)
lineAmountAt(ln, m2) == IF m2 = <<>> THEN NoNumber ELSE parseMoney(Slice(ln, m2[1] - 1, m2[2] - 1))

\* the amount of one line in the fallback: null when the line has no
\* keyword or no amount
lineTotal(ln) ==
  IF TestI(totalLineKeyword, ln)
  THEN lineAmountAt(ln, SearchFrom(Cat(<<Lit("$"), Star(Ws), totalAmount>>), ln, 1))
  ELSE NoNumber

\* the fallback: the first line with a keyword and an amount
firstLineTotal(lines) ==
  LET found == {k \in 1..Len(lines) : lineTotal(lines[k]).has}
  IN  IF found = {} THEN NoNumber ELSE lineTotal(lines[Least(found)])

findTotalWith(text, best) == IF best.has THEN best ELSE firstLineTotal(SplitLines(text))

findTotalInText(text) ==
  findTotalWith(text, Bind(ToLower(text), LAMBDA lowered : lastTotalFrom(lowered, 1, NoNumber)))

\* a || b on numbers or null: 0 and null are falsy
orNumber(a, b) == IF a.has /\ a.val # 0 THEN a ELSE b

\* (combinedEvidence ? findTotalInText(combinedEvidence) : null)
\*   || (allDocsRaw ? findTotalInText(allDocsRaw) : null)
detectedTotalOf(combinedEvidence, allDocsRaw) ==
  orNumber(IF combinedEvidence # "" THEN findTotalInText(combinedEvidence) ELSE NoNumber,
           IF allDocsRaw # "" THEN findTotalInText(allDocsRaw) ELSE NoNumber)

\* precedence: included > excluded > not_specified; 0 for undefined
precedence(status) ==
  CASE status = "included" -> 3
    [] status = "excluded" -> 2
    [] status = "not_specified" -> 1
    [] OTHER -> 0

\* a collapse in which every later item replaces the row
lastWins(a, b) == precedence(a) # 0

\* precedence[a] > precedence[b] (false when either is undefined)
precedenceGreater(a, b) ==
  /\ precedence(a) # 0
  /\ precedence(b) # 0
  /\ precedence(a) > precedence(b)

\* parsed.items.filter(...): the items with a string status and a string
\* name or a numeric candidate_index
filterItems(rawItems) ==
  SelectSeq(rawItems, LAMBDA it : it.hasStatus /\ (it.hasName \/ it.hasIdx))

\* the loop "for (const it of items) { canonize(scopeIndex, it.name) ... }"
\* throws a TypeError on an item that has no name (normalize reads
\* text.toLowerCase of undefined)
canonizeThrows(items) == \E i \in 1..Len(items) : ~items[i].hasName

canonizeItem(it, mapped) == IF mapped # "" THEN [it EXCEPT !.name = mapped] ELSE it

canonizeItems(items) ==
  AsSeq([i \in 1..Len(items) |-> canonizeItem(items[i], canonize(scopeIndex, items[i].name))])

\* candidateArray: the distinct normalised candidates
candidateArrayOf(cands) ==
  Unique(AsSeq([i \in 1..Len(cands) |-> normalizeScope(cands[i])]))

\* the pre-fill of collapsedMap: one not_specified row per candidate key
prefill(cands) ==
  MapOfSets(AsSeq([k \in 1..Len(cands) |-> normalizeScope(cands[k])]),
            AsSeq([k \in 1..Len(cands) |-> PrefillItem(cands[k])]))

\* what the scoring loop derives from the Candidate Scope List alone
tablesOf(cands, candidateArray) ==
  [cands |-> cands,
   normToDisplay |-> candidateNormToDisplay(cands),
   candidateArray |-> candidateArray,
   candTokens |-> AsSeq([k \in 1..Len(candidateArray) |-> tokens(candidateArray[k])]),
   prefilled |-> prefill(cands)]

candidateTables(cands) == tablesOf(cands, candidateArrayOf(cands))

\* the candidate an item resolves to: by index, by dictionary, by fuzzy
\* match; "" when none
byIndex(tables, it) ==
  IF it.hasIdx /\ it.idx >= 1 /\ it.idx <= Len(tables.cands) THEN tables.cands[it.idx] ELSE ""

byName(tables, it) ==
  IF it.hasName /\ it.name # ""
  THEN orSelf(mapToCandidate(tables.normToDisplay, it.name),
              nearestCandidate(tables.candidateArray, tables.candTokens, it.name))
  ELSE ""

mappedDisplayOf(tables, it) == orSelf(byIndex(tables, it), byName(tables, it))

\* the resolution loop, one item: the item that is kept (renamed to the
\* candidate it resolves to) or the entry that is dropped
\* it.name = mappedDisplay
renamedTo(it, mappedDisplay) ==
  IF mappedDisplay # "" THEN [it EXCEPT !.name = mappedDisplay, !.hasName = TRUE] ELSE it

resolved(tables, it, mappedDisplay) ==
  CASE mappedDisplay # "" ->
         [kept |-> <<renamedTo(it, mappedDisplay)>>, dropped |-> <<>>]
    [] mappedDisplay = "" /\ normalizeScope(it.name) \in Range(tables.candidateArray) ->
         [kept |-> <<it>>, dropped |-> <<>>]
    [] OTHER ->
         [kept |-> <<>>, dropped |-> <<[name |-> it.name, evidence |-> it.evidence]>>]

resolveOne(tables, it) == resolved(tables, it, mappedDisplayOf(tables, it))

\* the resolution loop: [kept, dropped]
keptAndDropped(each) ==
  [kept    |-> Flatten([k \in 1..Len(each) |-> each[k].kept], Len(each)),
   dropped |-> Flatten([k \in 1..Len(each) |-> each[k].dropped], Len(each))]

resolveAll(tables, items) ==
  keptAndDropped(AsSeq([k \in 1..Len(items) |-> resolveOne(tables, items[k])]))

\* the injection of the explicit alternates the kept items do not have
RECURSIVE injectAlternates(_, _, _)
injectOne(kept, parsedAlt) ==
  IF /\ parsedAlt.ok
     /\ ~\E i \in 1..Len(kept) : normalizeScope(kept[i].name) = normalizeScope(parsedAlt.name)
  THEN Append(kept, AlternateItem(parsedAlt.name, parsedAlt.price))
  ELSE kept

injectAlternates(kept, explicitAlternates, k) ==
  IF Len(kept) >= 0 /\ k > Len(explicitAlternates) THEN kept
  ELSE injectAlternates(injectOne(kept, parseAlt(explicitAlternates[k])), explicitAlternates, k + 1)

\* the collapse of the kept items into collapsedMap by status precedence
RECURSIVE collapseFrom(_, _, _)
\* one turn of the collapse: key is normalizeScope(it.name)
collapseOne(m, it, key) ==
  CASE key = "" -> m
    [] key # "" /\ ~MapHas(m, key) -> MapSet(m, key, it)
    [] key # "" /\ MapHas(m, key) /\ precedenceGreater(it.status, MapGet(m, key).status) ->
         MapSet(m, key, it)
    [] key # "" /\ MapHas(m, key) /\ ~precedenceGreater(it.status, MapGet(m, key).status)
         /\ ~MapGet(m, key).hasPrice /\ it.hasPrice ->
         MapSet(m, key, [MapGet(m, key) EXCEPT !.hasPrice = TRUE, !.price = it.price])
    [] OTHER -> m

collapseFrom(kept, k, m) ==
  IF Len(m) >= 0 /\ k > Len(kept) THEN m
  ELSE collapseFrom(kept, k + 1, collapseOne(m, kept[k], normalizeScope(kept[k].name)))

\* the strict pass on one contractor's answer: threw when the handler
\* throws; else the kept and dropped items and the collapsed rows
collapsed(tables, st, kept) ==
  [threw |-> FALSE, kept |-> kept, dropped |-> st.dropped,
   items |-> MapValues(collapseFrom(kept, 1, tables.prefilled))]

\* st is the outcome of the resolution loop
reconciled(tables, st, explicitAlternates) ==
  collapsed(tables, st, injectAlternates(st.kept, explicitAlternates, 1))

reconcileWith(tables, rawItems, explicitAlternates) ==
  IF canonizeThrows(filterItems(rawItems))
  THEN [threw |-> TRUE, kept |-> <<>>, dropped |-> <<>>, items |-> <<>>]
  ELSE reconciled(tables, resolveAll(tables, canonizeItems(filterItems(rawItems))),
                  explicitAlternates)

reconcile(cands, rawItems, explicitAlternates) ==
  reconcileWith(candidateTables(cands), rawItems, explicitAlternates)

(***************************************************************************)
(* Evidence scan of one contractor's documents (POST, lines 613-675)        *)
(***************************************************************************)
\* if (accChars > 200_000) break
EvidenceCharLimit == 200000

\* fullText.length > 10000 ? fullText.slice(0, 10000) : fullText
SnippetLimit == 10000

\* trimmed.replace(/^\s*[\d\-\*]+[\.\)]*\s*/, '')
stripListMarker(trimmed) ==
  ReplaceFirst(Cat(<<Bol, Star(Ws), Plus(Cls(DigitChars \cup {"-", "*"})),
                     Star(Cls({".", ")"})), Star(Ws)>>), trimmed, "")

\* String.prototype.toUpperCase
ToUpper(s) ==
  ConcatRange([k \in 1..Len(s) |->
                 IF SubSeq(s, k, k) \in LowerChars THEN UpperOfChar[SubSeq(s, k, k)]
                 ELSE SubSeq(s, k, k)],
              1, Len(s), "")

\* kept.push(line) on the text kept.join('\n') of count lines
pushLine(text, count, line) == IF count = 0 THEN line ELSE text \o "\n" \o line

\* the scan of the lines of one document: st = [section, alts, chars, count,
\* text] where chars and count are the length and the number of the kept
\* lines and text is kept.join('\n')
RECURSIVE scanLines(_, _, _)
\* one line of a document: sec is detectSection(line), cleaned is the
\* trimmed line without its list marker
scanLine(st, line, trimmed, sec, cleaned) ==
  LET alts2 == IF st.section = "alternates" /\ Len(trimmed) > 3 /\ cleaned # ""
               THEN Append(st.alts, cleaned) ELSE st.alts
  IN  IF trimmed = "" THEN st
      ELSE IF sec # ""
      THEN [st EXCEPT !.section = sec,
                      !.chars = @ + Len("\n=== ") + Len(sec) + Len(" SECTION ==="),
                      !.count = @ + 1,
                      !.text = pushLine(@, st.count, "\n=== " \o ToUpper(sec) \o " SECTION ===")]
      ELSE IF isJunkLine(line)
      THEN [st EXCEPT !.alts = alts2]
      ELSE [st EXCEPT !.alts = alts2, !.chars = @ + Len(line), !.count = @ + 1,
                      !.text = pushLine(@, st.count, line)]

scanLines(lines, k, st) ==
  IF st.count >= 0 /\ k > Len(lines) THEN st
  ELSE scanLines(lines, k + 1,
                 scanLine(st, lines[k], Trim(lines[k]), detectSection(lines[k]),
                          stripListMarker(Trim(lines[k]))))

\* the loop over docs.texts: acc = [alts, accChars, evidence], evidence being
\* combinedEvidence
RECURSIVE scanTexts(_, _, _)
\* the block of one document: st is the scan of its lines
scannedText(acc, name, st) ==
  LET fullLen == st.chars + (IF st.count > 0 THEN st.count - 1 ELSE 0)
      snippetLen == IF fullLen > SnippetLimit THEN SnippetLimit ELSE fullLen
  IN  [alts |-> st.alts,
       accChars |-> acc.accChars + Len("=== DOCUMENT: ") + Len(name) + Len(" ===\n")
                      + snippetLen + 1,
       evidence |-> acc.evidence \o "\n" \o Slice(st.text, 0, SnippetLimit)]

scanTexts(texts, k, acc) ==
  IF k > Len(texts) \/ acc.accChars > EvidenceCharLimit THEN acc
  ELSE scanTexts(texts, k + 1,
         scannedText(acc, texts[k].name,
                     scanLines(SplitLines(texts[k].text), 1,
                               [section |-> "", alts |-> acc.alts, chars |-> 0, count |-> 0,
                                text |-> ""])))

\* explicitAlternates: the lines of the alternates sections of the documents
scanOf(texts) == scanTexts(texts, 1, [alts |-> <<>>, accChars |-> 0, evidence |-> ""])

explicitAlternatesOf(texts) == scanOf(texts).alts

\* (docs.texts || []).map(t => t.text).join('\n').slice(0, 200000)
RawLimit == 200000

allDocsRawOf(texts) ==
  Slice(ConcatRange([k \in 1..Len(texts) |->
                       (IF k = 1 THEN "" ELSE "\n") \o texts[k].text],
                    1, Len(texts), ""),
        0, RawLimit)

\* detectedTotal of one contractor's documents
detectedTotal(texts) == detectedTotalOf(scanOf(texts).evidence, allDocsRawOf(texts))

\* Array.from(alts).slice(0, 100)
MaxAlternates == 100

\* Array.prototype.slice(0, n)
Take(seq, n) == SubSeq(seq, 1, IF Len(seq) < n THEN Len(seq) ELSE n)

\* mergeQual: the explicit alternates of more than two characters join the
\* alternates of the answer, each entry once
mergeQual(q, explicitAlternates) ==
  [q EXCEPT !.alternates =
     Take(Unique(@ \o SelectSeq(explicitAlternates, LAMBDA a : Len(a) > 2)), MaxAlternates)]

\* per[cidKey] = { items, qualifications: mergeQual(parsed.qualifications),
\*                 unmapped: parsed.unmapped, total: ... }
perEntry(items, parsed, explicitAlternates, detected) ==
  [items |-> items,
   qualifications |-> mergeQual(parsed.qualifications, explicitAlternates),
   unmapped |-> parsed.unmapped,
   total |-> IF parsed.hasTotal THEN Number(parsed.total) ELSE detected]

(***************************************************************************)
(* Lenient retry pass (POST, lines 941-1018)                                *)
(***************************************************************************)
\* the position of the first item on which the retry loop throws: an item
\* that resolves to no candidate and has no name (normalizeScope reads
\* it.name.replace of undefined); 0 when there is none
leastOr0(ps) == IF ps = {} THEN 0 ELSE Least(ps)

retryThrowsAt(tables, items) ==
  leastOr0({k \in 1..Len(items) : ~items[k].hasName /\ mappedDisplayOf(tables, items[k]) = ""})

\* the items array when the loop throws at position at: the items before it
\* carry the name of the candidate they resolved to (it.name = mappedDisplay)
retryRenamed(tables, items, at) ==
  AsSeq([k \in 1..Len(items) |->
           IF k < at THEN renamedTo(items[k], mappedDisplayOf(tables, items[k])) ELSE items[k]])

\* the value of items after the retry: the collapsed rows, or, when the
\* loop throws, the filtered answer (the catch is empty)
retryItems(tables, items2, at) ==
  IF at # 0 THEN retryRenamed(tables, items2, at)
  ELSE MapValues(collapseFrom(resolveAll(tables, items2).kept, 1, tables.prefilled))

retryPassWith(tables, rawItems2) ==
  retryItems(tables, filterItems(rawItems2), retryThrowsAt(tables, filterItems(rawItems2)))

retryPass(cands, rawItems2) == retryPassWith(candidateTables(cands), rawItems2)

(***************************************************************************)
(* Contractors and document loading (POST, lines 59-139)                    *)
(***************************************************************************)
\* LIMITS.maxContractors
maxContractors == 5

\* LIMITS.maxDocsPerBid
maxDocsPerBid == 4

\* LIMITS.csvPerSheet
csvPerSheet == 50000

\* b.contractor_id || 'unassigned' ("" stands for a null contractor_id)
cidOf(b) == IF b.contractor_id = "" THEN "unassigned" ELSE b.contractor_id

\* the distinct contractor keys of the bids, first seen first
cidsOf(bidList) == Unique(AsSeq([k \in 1..Len(bidList) |-> cidOf(bidList[k])]))

\* one contractors entry per bid, without the Set
contractorsPerBid(bidList, conNames) ==
  AsSeq([k \in 1..Len(bidList) |->
        [contractor_id |-> bidList[k].contractor_id,
         name |-> IF MapHas(conNames, cidOf(bidList[k])) /\ MapGet(conNames, cidOf(bidList[k])) # ""
                  THEN MapGet(conNames, cidOf(bidList[k])) ELSE "Contractor"]])

\* canonicalContractors; conNames is the contractors table as <<id, name>> entries
canonicalContractors(bidList, conNames) ==
  LET cids == cidsOf(bidList)
  IN  AsSeq([k \in 1..Len(cids) |->
        [contractor_id |-> IF cids[k] = "unassigned" THEN "" ELSE cids[k],
         name |-> IF MapHas(conNames, cids[k]) /\ MapGet(conNames, cids[k]) # ""
                  THEN MapGet(conNames, cids[k]) ELSE "Contractor"]])

\* String.prototype.endsWith
EndsWith(str, suffix) ==
  Len(str) >= Len(suffix) /\ SubSeq(str, Len(str) - Len(suffix) + 1, Len(str)) = suffix

\* what the environment can answer for one stored document: the download
\* gives no blob; the extractor answers, is not configured, answers 404 or
\* fails otherwise; the workbook reader reads the file or throws
docOutcomes(storagePath) ==
  LET lower == ToLower(storagePath)
  IN  IF EndsWith(lower, ".pdf")
      THEN {"ok", "no_blob", "missing_url", "e404", "extract_error"}
      ELSE IF EndsWith(lower, ".xlsx") \/ EndsWith(lower, ".xls")
      THEN {"ok", "no_blob", "read_throws"}
      ELSE {"ok", "no_blob"}

\* the loop over the documents of one bid: st = [result, error, texts, docCount].
\* A PDF is extracted to one page of text blocks, a workbook has one sheet.
RECURSIVE loadDocsFrom(_, _, _, _)
loadDocsFrom(docs, outcomes, k, st) ==
  IF k > Len(docs) \/ st.docCount >= maxDocsPerBid \/ st.result # "ok" THEN st
  ELSE LET d     == docs[k]
           lower == ToLower(d.storage_path)
           counted == [st EXCEPT !.docCount = @ + 1]
       IN  IF outcomes[k] = "no_blob" THEN loadDocsFrom(docs, outcomes, k + 1, st)
           ELSE IF EndsWith(lower, ".pdf")
           THEN CASE outcomes[k] = "missing_url" ->
                       [st EXCEPT !.result = "failed",
                                  !.error = "PDF_EXTRACTOR_URL is not set. Configure the Python extractor endpoint in environment variables."]
                  [] outcomes[k] = "e404" ->
                       [st EXCEPT !.result = "failed",
                                  !.error = "Extractor 404: Ensure the URL points to the /extract route (we now append /extract automatically)."]
                  [] outcomes[k] = "extract_error" -> loadDocsFrom(docs, outcomes, k + 1, st)
                  [] OTHER ->
                       loadDocsFrom(docs, outcomes, k + 1,
                         [counted EXCEPT !.texts = Append(@,
                            [name |-> d.storage_path \o " :: page 1 :: text", text |-> d.content])])
           ELSE IF EndsWith(lower, ".xlsx") \/ EndsWith(lower, ".xls")
           THEN IF outcomes[k] = "read_throws" THEN [st EXCEPT !.result = "threw"]
                ELSE loadDocsFrom(docs, outcomes, k + 1,
                       [counted EXCEPT !.texts = Append(@,
                          [name |-> d.storage_path \o " :: Sheet1",
                           text |-> Slice(d.content, 0, csvPerSheet)])])
           ELSE IF EndsWith(lower, ".csv")
           THEN loadDocsFrom(docs, outcomes, k + 1,
                  [counted EXCEPT !.texts = Append(@,
                     [name |-> d.storage_path, text |-> Slice(d.content, 0, csvPerSheet)])])
           ELSE loadDocsFrom(docs, outcomes, k + 1, counted)

loadDocs(docs, outcomes) ==
  loadDocsFrom(docs, outcomes, 1, [result |-> "ok", error |-> "", texts |-> <<>>, docCount |-> 0])

(***************************************************************************)
(* Merge pass (POST, lines 1038-1088)                                       *)
(***************************************************************************)
\* per[cid]?.items || []
itemsOfCid(per, cid) == IF MapHas(per, cid) THEN MapGet(per, cid).items ELSE <<>>

\* normalizeScope(it.name || '') of the items of all contractors, in order
scoredNames(per) ==
  Flatten([k \in 1..Len(per) |->
             AsSeq([q \in 1..Len(per[k][2].items) |->
                      IF per[k][2].items[q].hasName
                      THEN normalizeScope(per[k][2].items[q].name) ELSE ""])],
          Len(per))

\* scopeItems: candidateUnionFinal, then the scored names not yet in the set
scopeItemsOf(cands, per) ==
  Unique(cands \o nonEmpty(scoredNames(per)))

\* normalizeScope(it.name) of the items of one contractor ("" for an item
\* without a name, on which the call throws)
itemNorms(arr) ==
  AsSeq([k \in 1..Len(arr) |-> IF arr[k].hasName THEN normalizeScope(arr[k].name) ELSE ""])

\* arr.find(it => normalizeScope(it.name) === s): 0 when nothing is found;
\* norms is itemNorms(arr)
findIndex(arr, norms, s) == leastOr0({k \in 1..Len(arr) : arr[k].hasName /\ norms[k] = s})

\* the find throws when it meets an item without a name before a match
findThrows(arr, norms, s) ==
  \E k \in 1..Len(arr) :
     /\ ~arr[k].hasName
     /\ findIndex(arr, norms, s) \in {0} \cup {h \in 1..Len(arr) : h > k}

\* { status: found?.status || 'not_specified', price: number or null }
cellOf(arr, norms, s) ==
  LET k == findIndex(arr, norms, s)
  IN  IF k = 0 THEN [status |-> "not_specified", hasPrice |-> FALSE, price |-> 0]
      ELSE [status |-> IF arr[k].status = "" THEN "not_specified" ELSE arr[k].status,
            hasPrice |-> arr[k].hasPrice,
            price |-> IF arr[k].hasPrice THEN arr[k].price ELSE 0]

\* matrix[s][cid] for every scope item and every bid
\* normalizeScope(it.name) of the items of every contractor
normsOfAll(bidList, per) ==
  [cid \in Range(cidsOf(bidList)) |-> itemNorms(itemsOfCid(per, cid))] @@ <<>>

matrixWith(scopeItems, bidList, per, normsOf) ==
  [s \in Range(scopeItems) |->
     [cid \in Range(cidsOf(bidList)) |-> cellOf(itemsOfCid(per, cid), normsOf[cid], s)]]

matrixOf(scopeItems, bidList, per) ==
  matrixWith(scopeItems, bidList, per, normsOfAll(bidList, per))

mergeThrowsWith(scopeItems, bidList, per, normsOf) ==
  \E s \in Range(scopeItems) : \E cid \in Range(cidsOf(bidList)) :
     findThrows(itemsOfCid(per, cid), normsOf[cid], s)

mergeThrows(scopeItems, bidList, per) ==
  mergeThrowsWith(scopeItems, bidList, per, normsOfAll(bidList, per))

\* quals[cid] for every bid
qualsOf(bidList, per) ==
  [cid \in Range(cidsOf(bidList)) |->
     IF MapHas(per, cid) THEN MapGet(per, cid).qualifications ELSE emptyQual] @@ <<>>

\* items.reduce(...): the sum of the numeric prices of the included items
RECURSIVE includedSum(_, _)
includedSum(items, k) ==
  IF k > Len(items) THEN 0
  ELSE (IF items[k].status = "included" /\ items[k].hasPrice THEN items[k].price ELSE 0)
         + includedSum(items, k + 1)

\* total = sum > 0 ? sum : null
sumOrNull(sum) == IF sum > 0 THEN Number(sum) ELSE NoNumber

\* every contractor is given the total of the first contractor scored
totalOfFirst(per, cid) ==
  IF per = <<>> THEN NoNumber
  ELSE IF per[1][2].total.has THEN per[1][2].total
  ELSE sumOrNull(includedSum(per[1][2].items, 1))

\* the total of one contractor: per[cid].total when it is a number, else
\* the sum of the included prices
totalOf(per, cid) ==
  IF MapHas(per, cid) /\ MapGet(per, cid).total.has THEN MapGet(per, cid).total
  ELSE sumOrNull(includedSum(itemsOfCid(per, cid), 1))

\* contractorsWithTotals
contractorsWithTotals(contractors, per) ==
  AsSeq([k \in 1..Len(contractors) |->
           [contractor_id |-> contractors[k].contractor_id,
            name |-> contractors[k].name,
            total |-> totalOf(per, cidOf(contractors[k]))]])

\* mergedReport
reportOf(scopeItems, bidList, contractors, per, unmappedPer) ==
  [contractors |-> contractorsWithTotals(contractors, per),
   scope_items |-> scopeItems,
   matrix      |-> matrixOf(scopeItems, bidList, per),
   qualifications |-> qualsOf(bidList, per),
   unmapped    |-> unmappedPer]

mergedReport(cands, bidList, contractors, per, unmappedPer) ==
  reportOf(scopeItemsOf(cands, per), bidList, contractors, per, unmappedPer)

(***************************************************************************)
(* The database the worker reads, and what its environment can answer       *)
(***************************************************************************)
\* bounds of the model: processing jobs in the queue, worker invocations,
\* items in one answer of the oracle
NumJobs == 2

NumInvocations == 2

MaxItems == 2

MaxItemsEach == 1

MaxRetryItems == 1

JobIds == 1..NumJobs

Invocations == 1..NumInvocations

\* the project (jobs.id) of the first processing job is one of P1 .. P4 (P4
\* has a bid without documents); the later processing jobs belong to a
\* project without bids
FirstProjects == {"P1", "P2", "P3", "P4"}

\* the projects of the claims about prices, alternates, totals and
\* qualifications: P5 has an alternates section, P6 two contractors and a
\* bid total in a document, P7 no documents, P8 two bids of one contractor,
\* P9 a candidate that only the aggregation proposes
ReportProjects == {"P5", "P6", "P7", "P8", "P9"}

\* bids rows by job_id ("" is a null contractor_id)
bidsTable(jobId) ==
  CASE jobId = "P1" -> << [id |-> "p1b1", contractor_id |-> "c1"] >>
    [] jobId = "P2" -> << [id |-> "p2b1", contractor_id |-> "c1"],
                          [id |-> "p2b2", contractor_id |-> ""] >>
    [] jobId = "P3" -> << [id |-> "p3b1", contractor_id |-> "c2"],
                          [id |-> "p3b2", contractor_id |-> "c2"] >>
    [] jobId = "P4" -> << [id |-> "p4b1", contractor_id |-> "c1"] >>
    [] jobId = "P5" -> << [id |-> "p5b1", contractor_id |-> "c1"] >>
    [] jobId = "P6" -> << [id |-> "p6b1", contractor_id |-> "c1"],
                          [id |-> "p6b2", contractor_id |-> "c3"] >>
    [] jobId = "P7" -> << [id |-> "p7b1", contractor_id |-> "c1"] >>
    [] jobId = "P8" -> << [id |-> "p8b1", contractor_id |-> "c2"],
                          [id |-> "p8b2", contractor_id |-> "c2"] >>
    [] jobId = "P9" -> << [id |-> "p9b1", contractor_id |-> "c1"] >>
    [] OTHER -> << >>

\* documents rows by bid_id, with the text the stored file holds
documentsTable(bidId) ==
  CASE bidId = "p1b1" ->
         << [storage_path |-> "p1b1.pdf",
             content |-> "SCOPE OF WORK\n- Install fire-smoke dampers\nALTERNATES\nVFD upgrade $500"] >>
    [] bidId = "p2b1" ->
         << [storage_path |-> "p2b1.xlsx", content |-> "Install exhaust fans,800"] >>
    [] bidId = "p2b2" ->
         << [storage_path |-> "p2b2.csv", content |-> "Furnish roof curbs,300"] >>
    [] bidId = "p3b1" ->
         << [storage_path |-> "p3b1.csv", content |-> "Rooftop units,800"] >>
    [] bidId = "p5b1" ->
         << [storage_path |-> "p5b1.csv",
             content |-> "SCOPE OF WORK\n- Install exhaust fans\nALTERNATES\nAdd alternate for VFD upgrade $ 7,600\nDeduct for pipe insulation $ 4,200"] >>
    [] bidId = "p6b1" ->
         << [storage_path |-> "p6b1.csv",
             content |-> "SCOPE OF WORK\n- Install exhaust fans\nBASE BID: $5,000"] >>
    [] bidId = "p6b2" ->
         << [storage_path |-> "p6b2.csv", content |-> "SCOPE OF WORK\n- Furnish roof curbs"] >>
    [] bidId = "p8b1" ->
         << [storage_path |-> "p8b1.csv", content |-> "Rooftop units,800"] >>
    [] bidId = "p9b1" ->
         << [storage_path |-> "p9b1.csv", content |-> "Heat-pump water heater,900"] >>
    [] OTHER -> << >>

\* contractors rows as <<id, name>> entries
contractorsTable == << <<"c1", "Acme Mechanical">> >>

\* what the aggregation call can give for a project
aggAnswers(jobId) ==
  IF jobId = "P1"
  THEN {[ok |-> FALSE, scope_items |-> <<>>],
        [ok |-> TRUE, scope_items |-> <<>>],
        [ok |-> TRUE, scope_items |-> <<"Fire-smoke dampers", "Fire smoke dampers", "Roof curbs">>]}
  ELSE IF jobId = "P9"
  THEN {[ok |-> TRUE, scope_items |-> <<"Heat-pump water heater">>]}
  ELSE {[ok |-> FALSE, scope_items |-> <<>>]}

\* the items the oracle can put in an answer for a project
itemPool(jobId) ==
  CASE jobId = "P1" ->
         { Item(FALSE, "", TRUE, 1, TRUE, "included", TRUE, 100, ""),
           Item(TRUE, "Fire-smoke dampers", TRUE, 1, TRUE, "included", TRUE, 100, ""),
           Item(TRUE, "Fire-smoke dampers", TRUE, 1, TRUE, "excluded", FALSE, 0, ""),
           Item(TRUE, "Roof curbs", FALSE, 0, TRUE, "excluded", FALSE, 0, ""),
           Item(TRUE, "Unknown widget", FALSE, 0, TRUE, "included", TRUE, 50, "") }
    [] jobId = "P2" ->
         { Item(TRUE, "Exhaust fans", TRUE, 1, TRUE, "included", TRUE, 800, ""),
           Item(TRUE, "Roof curbs", FALSE, 0, TRUE, "maybe", FALSE, 0, "p.2") }
    [] jobId = "P3" ->
         { Item(TRUE, "40 ton AHU", FALSE, 0, TRUE, "included", TRUE, 800, "p.1"),
           Item(TRUE, "Exhaust fans", TRUE, 1, TRUE, "excluded", FALSE, 0, "") }
    [] jobId = "P5" ->
         { Item(TRUE, "Exhaust fans", TRUE, 1, TRUE, "excluded", TRUE, 50, ""),
           Item(TRUE, "Exhaust fans", TRUE, 1, TRUE, "included", TRUE, 100, ""),
           Item(TRUE, "Fans exhaust", FALSE, 0, TRUE, "included", FALSE, 0, ""),
           Item(TRUE, "Pipe insulation", FALSE, 0, TRUE, "included", TRUE, 3900, "") }
    [] jobId = "P6" ->
         { Item(TRUE, "Exhaust fans", TRUE, 1, TRUE, "included", TRUE, 800, "") }
    [] jobId = "P7" ->
         { Item(TRUE, "Ductwork", FALSE, 0, TRUE, "maybe", FALSE, 0, ""),
           Item(FALSE, "", TRUE, 5, TRUE, "included", FALSE, 0, "") }
    [] jobId = "P8" ->
         { Item(TRUE, "Rooftop units", TRUE, 1, TRUE, "included", TRUE, 800, "") }
    [] jobId = "P9" ->
         { Item(TRUE, "Heat-pump heater", FALSE, 0, TRUE, "included", TRUE, 900, "") }
    [] OTHER -> {}

\* total, qualifications and unmapped of the answers of the oracle for a
\* project, and of its answers to the lenient retry
oracleExtras(jobId) ==
  CASE jobId = "P6" ->
         { noExtras,
           Extras(TRUE, 9000,
                  [emptyQual EXCEPT !.excludes = <<"Controls wiring", "Controls wiring">>],
                  <<[name |-> "Crane", evidence |-> "p.3"]>>) }
    [] jobId \in {"P7", "P8"} ->
         { noExtras, Extras(FALSE, 0, [emptyQual EXCEPT !.includes = <<"Ductwork">>], <<>>) }
    [] OTHER -> {noExtras}

retryExtras(jobId) ==
  IF jobId = "P7"
  THEN { noExtras, Extras(FALSE, 0, [emptyQual EXCEPT !.excludes = <<"Controls wiring">>], <<>>) }
  ELSE {noExtras}

\* the sequences of at most n elements of a set
SeqsUpTo(S, n) == UNION {[1..k -> S] : k \in 0..n}

\* the answers of the oracle for a project: parsed.items, of at most
\* MaxItems items when the project has one bid and MaxItemsEach otherwise
oracleAnswers(jobId) ==
  SeqsUpTo(itemPool(jobId), IF Len(bidsTable(jobId)) > 1 THEN MaxItemsEach ELSE MaxItems)

\* the rate-limit errors a scoring call can meet before its last outcome
MaxRateLimits == 3

\* the outcomes drawn for the requests of one call
MaxResponses == 5

\* error messages of the oracle client: a rate-limit error and another error
RateLimitMessage == "429 rate_limit_error"

OtherMessage == "Connection error"

\* what the requests of one scoring call meet: k rate-limit errors, then
\* the same outcome (a response, or an error) for every later request
oracleResponses ==
  {[n \in 1..MaxResponses |-> IF n <= k THEN RateLimitMessage ELSE last] :
     k \in 0..MaxRateLimits, last \in {"ok", RateLimitMessage, OtherMessage}}

\* the items in one answer to the lenient retry of the project without
\* documents
LenientProject == "P7"

MaxRetryItemsLenient == 2

retryBound(jobId) == IF jobId = LenientProject THEN MaxRetryItemsLenient ELSE MaxRetryItems

\* the outcomes of the lenient retry call for a project: the call fails, or
\* it answers with items
retryAnswers(jobId) ==
  {[ok |-> FALSE, items |-> <<>>, extras |-> noExtras]}
    \cup {[ok |-> TRUE, items |-> a, extras |-> e] :
             a \in SeqsUpTo(itemPool(jobId), retryBound(jobId)), e \in retryExtras(jobId)}

(***************************************************************************)
(* State                                                                    *)
(***************************************************************************)
VARIABLES
  jobRows,     \* processing_jobs: id -> row
  reportRows,  \* bid_level_reports: the inserted rows, in order
  runs,        \* the worker invocations: invocation -> position and locals
  statusLog    \* history: id -> the <<old, new>> status of each write to status

vars == <<jobRows, reportRows, runs, statusLog>>

\* an invocation that is not running. Besides the locals of POST the record
\* keeps what the invocation has sent to the oracle: oracle (a request has
\* been made), aggOk (the aggregation call gave a list), and, for the last
\* scoring turn, cid (set when the turn is complete), answer and extras
\* (parsed.items and the other fields of parsed in the strict pass), attempts
\* (the requests of the strict call), sent (the content of each scoring
\* request), lenient and retry (the lenient pass and its outcome); inserted
\* is the result of the insert, which the code does not read
idleRun ==
  [pc |-> "idle", job |-> 0, bidList |-> <<>>, contractors |-> <<>>, byBidDocs |-> <<>>,
   bi |-> 0, cands |-> <<>>, per |-> <<>>, unmappedPer |-> <<>>, done |-> 0, http |-> 0,
   oracle |-> FALSE, aggOk |-> FALSE, aggItems |-> <<>>, cid |-> "", answer |-> <<>>, attempts |-> 0,
   responses |-> <<>>, sent |-> <<>>, lenient |-> FALSE, retry |-> [ok |-> FALSE, items |-> <<>>, extras |-> noExtras],
   extras |-> noExtras, inserted |-> FALSE]

\* the state of an invocation that returns a response: its locals are kept
\* until the response is delivered
returned(run, http) == [run EXCEPT !.pc = "ended", !.http = http]

\* a processing_jobs row as inserted: status and progress by column default
queuedRow(jobId) ==
  [job_id |-> jobId, status |-> "queued", progress |-> 0, started_at |-> FALSE,
   finished_at |-> FALSE, error |-> "", batches_total |-> 0, batches_done |-> 0]

Init ==
  /\ \E first \in FirstProjects :
       jobRows = [j \in JobIds |-> queuedRow(IF j = 1 THEN first ELSE "P0")]
  /\ reportRows = <<>>
  /\ runs = [i \in Invocations |-> idleRun]
  /\ statusLog = [j \in JobIds |-> <<>>]

\* the invocations run one after another: an invocation starts when no
\* other one is running, and it takes the first slot
Alone(i) == i = 1 /\ \A o \in Invocations \ {i} : runs[o].pc = "idle"

\* a failure that first stores the results obtained so far as a report row
FailJobWithPartialReport(i, run, message, http) ==
  LET j == runs[i].job
  IN  /\ jobRows' = [jobRows EXCEPT ![j] = [@ EXCEPT !.status = "failed", !.error = message,
                                                     !.finished_at = TRUE]]
      /\ statusLog' = [statusLog EXCEPT ![j] = Append(@, <<jobRows[j].status, "failed">>)]
      /\ runs' = [runs EXCEPT ![i] = returned(run, http)]
      /\ reportRows' = IF run.per = <<>> THEN reportRows
                       ELSE Append(reportRows, [job_id |-> jobRows[j].job_id, report |-> run.per])

\* update({ status: 'failed', error, finished_at }) and the error response;
\* run is the invocation's record at that point
FailJob(i, run, message, http) ==
  LET j == runs[i].job
  IN  /\ jobRows' = [jobRows EXCEPT ![j] = [@ EXCEPT !.status = "failed", !.error = message,
                                                     !.finished_at = TRUE]]
      /\ statusLog' = [statusLog EXCEPT ![j] = Append(@, <<jobRows[j].status, "failed">>)]
      /\ runs' = [runs EXCEPT ![i] = returned(run, http)]
      /\ UNCHANGED reportRows

\* an exception that nothing catches: the invocation ends with a 500 and
\* touches nothing
Throw(i, run) ==
  /\ runs' = [runs EXCEPT ![i] = [run EXCEPT !.pc = "threw", !.http = 500]]
  /\ UNCHANGED <<jobRows, reportRows, statusLog>>

\* takeQueued without the filter on status: the oldest row
takeOldest == CHOOSE j \in JobIds : \A o \in JobIds : j <= o

\* the oldest queued row (rows are created in the order of their ids), 0 for none
takeQueued ==
  LET queued == {j \in JobIds : jobRows[j].status = "queued"}
  IN  IF queued = {} THEN 0 ELSE CHOOSE j \in queued : \A o \in queued : j <= o

\* lines 12-41: the authorization check and takeQueued
TakeQueued(i) ==
  /\ runs[i].pc = "idle"
  /\ \E auth \in BOOLEAN :
       runs' = [runs EXCEPT ![i] =
                  IF ~auth THEN returned(idleRun, 401)
                  ELSE IF takeQueued = 0 THEN returned(idleRun, 200)
                  ELSE [idleRun EXCEPT !.pc = "mark", !.job = takeQueued]]
  /\ UNCHANGED <<jobRows, reportRows, statusLog>>

\* a claim that takes the row only while it is still queued
MarkRunningIfQueued(i) ==
  LET j == runs[i].job
  IN  /\ runs[i].pc = "mark"
      /\ jobRows[j].status = "queued"
      /\ jobRows' = [jobRows EXCEPT ![j] = [@ EXCEPT !.status = "running", !.started_at = TRUE,
                                                     !.progress = 5]]
      /\ statusLog' = [statusLog EXCEPT ![j] = Append(@, <<jobRows[j].status, "running">>)]
      /\ runs' = [runs EXCEPT ![i].pc = "bids"]
      /\ UNCHANGED reportRows

\* line 42: update({ status: 'running', started_at, progress: 5 })
MarkRunning(i) ==
  LET j == runs[i].job
  IN  /\ runs[i].pc = "mark"
      /\ jobRows' = [jobRows EXCEPT ![j] = [@ EXCEPT !.status = "running", !.started_at = TRUE,
                                                     !.progress = 5]]
      /\ statusLog' = [statusLog EXCEPT ![j] = Append(@, <<jobRows[j].status, "running">>)]
      /\ runs' = [runs EXCEPT ![i].pc = "bids"]
      /\ UNCHANGED reportRows

\* lines 48-74: the bids of the job and their contractors
LoadBids(i) ==
  LET j == runs[i].job
      bidList == SubSeq(bidsTable(jobRows[j].job_id), 1,
                        IF Len(bidsTable(jobRows[j].job_id)) < maxContractors
                        THEN Len(bidsTable(jobRows[j].job_id)) ELSE maxContractors)
  IN  /\ runs[i].pc = "bids"
      /\ \E bidsErr \in BOOLEAN :
           IF bidsErr THEN FailJob(i, runs[i], "bids query failed", 500)
           ELSE IF bidList = <<>> THEN FailJob(i, runs[i], "No bids found", 400)
           ELSE /\ runs' = [runs EXCEPT ![i].pc = "docs", ![i].bidList = bidList, ![i].bi = 1,
                                        ![i].contractors = canonicalContractors(bidList, contractorsTable)]
                /\ UNCHANGED <<jobRows, reportRows, statusLog>>

\* lines 77-139, one turn of the loop: the documents of one bid
LoadDocs(i) ==
  LET b    == runs[i].bidList[runs[i].bi]
      docs == documentsTable(b.id)
      next == IF runs[i].bi = Len(runs[i].bidList) THEN "key" ELSE "docs"
  IN  /\ runs[i].pc = "docs"
      /\ \/ \* docsErr: continue, byBidDocs gets no entry
            /\ runs' = [runs EXCEPT ![i].pc = next, ![i].bi = @ + 1]
            /\ UNCHANGED <<jobRows, reportRows, statusLog>>
         \/ \E outcomes \in [1..Len(docs) -> {"ok", "no_blob", "missing_url", "e404",
                                              "extract_error", "read_throws"}] :
              /\ \A k \in 1..Len(docs) : outcomes[k] \in docOutcomes(docs[k].storage_path)
              /\ LET st == loadDocs(docs, outcomes)
                 IN  CASE st.result = "failed" -> FailJob(i, runs[i], st.error, 500)
                       [] st.result = "threw" -> Throw(i, runs[i])
                       [] OTHER ->
                            /\ runs' = [runs EXCEPT ![i].pc = next, ![i].bi = @ + 1,
                                                    ![i].byBidDocs = (b.id :> st.texts) @@ @]
                            /\ UNCHANGED <<jobRows, reportRows, statusLog>>

\* lines 141-145: the API key of the oracle
CheckKey(i) ==
  /\ runs[i].pc = "key"
  /\ \E anthropicKey \in BOOLEAN :
       IF ~anthropicKey THEN FailJob(i, runs[i], "Missing ANTHROPIC_API_KEY", 500)
       ELSE /\ runs' = [runs EXCEPT ![i].pc = "aggregate"]
            /\ UNCHANGED <<jobRows, reportRows, statusLog>>

\* lines 396-512: the Candidate Scope List and batches_total; the
\* aggregation request is made whatever the documents hold
Aggregate(i) ==
  LET j == runs[i].job
  IN  /\ runs[i].pc = "aggregate"
      /\ \E agg \in aggAnswers(jobRows[j].job_id) :
           \E cands \in {candidateUnionFinalOf(runs[i].bidList, runs[i].byBidDocs, agg)} :
              runs' = [runs EXCEPT ![i].pc = "score", ![i].bi = 1, ![i].done = 0,
                                   ![i].cands = cands, ![i].oracle = TRUE,
                                   ![i].aggOk = agg.ok,
                                   ![i].aggItems = agg.scope_items]
      /\ jobRows' = [jobRows EXCEPT ![j].batches_total = Len(runs[i].bidList)]
      /\ UNCHANGED <<reportRows, statusLog>>

\* a progress that is the plain percentage of the contractors scored
percentDone(done, batches) == (done * 100) \div batches

\* Math.min(90, Math.round((done / batches) * 85) + 5)
progressOf(done, batches) ==
  LET rounded == (2 * done * 85 + batches) \div (2 * batches)
  IN  IF rounded + 5 < 90 THEN rounded + 5 ELSE 90

\* callClaudeWithRetry(tries = 4)
tries == 4

\* /429|rate_limit/i.test(msg)
isRateLimit(msg) == TestI(Alt(<<Lit("429"), Lit("rate_limit")>>), msg)

\* a call that backs off on every error, whatever its message
RECURSIVE retryAllFrom(_, _)
retryAllFrom(responses, attempt) ==
  IF attempt >= tries
  THEN [ok |-> FALSE, message |-> "Claude request failed after retries", attempts |-> attempt]
  ELSE IF responses[attempt + 1] = "ok"
  THEN [ok |-> TRUE, message |-> "", attempts |-> attempt + 1]
  ELSE IF attempt < tries - 1
  THEN retryAllFrom(responses, attempt + 1)
  ELSE [ok |-> FALSE, message |-> responses[attempt + 1], attempts |-> attempt + 1]

callRetryingAll(responses) == retryAllFrom(responses, 0)

\* a call that gives up on the first error
callWithoutRetry(responses) ==
  IF responses[1] = "ok"
  THEN [ok |-> TRUE, message |-> "", attempts |-> 1]
  ELSE [ok |-> FALSE, message |-> responses[1], attempts |-> 1]

\* the loop of callClaudeWithRetry from the given value of attempt;
\* responses[n] is the outcome of the n-th request: "ok" or the message of
\* the error it raises. The result tells whether the call returned, the
\* message of the error thrown, and the number of requests made
RECURSIVE callFrom(_, _)
callFrom(responses, attempt) ==
  IF attempt >= tries
  THEN [ok |-> FALSE, message |-> "Claude request failed after retries", attempts |-> attempt]
  ELSE IF responses[attempt + 1] = "ok"
  THEN [ok |-> TRUE, message |-> "", attempts |-> attempt + 1]
  ELSE IF isRateLimit(responses[attempt + 1]) /\ attempt < tries - 1
  THEN callFrom(responses, attempt + 1)
  ELSE [ok |-> FALSE, message |-> responses[attempt + 1], attempts |-> attempt + 1]

callClaudeWithRetry(responses) == callFrom(responses, 0)

\* the run record once the strict scoring call of the current bid is over:
\* what its requests met and how many were made are kept for the record
called(run, call, responses) ==
  [run EXCEPT !.oracle = TRUE, !.cid = "", !.attempts = call.attempts,
              !.responses = responses,
              !.sent = <<"content">>, !.answer = <<>>, !.lenient = FALSE,
              !.retry = [ok |-> FALSE, items |-> <<>>, extras |-> noExtras],
              !.extras = noExtras]

\* lines 798-804: the scoring call throws
ScoreFails(i) ==
  /\ runs[i].pc = "score"
  /\ \E responses \in oracleResponses :
       \E call \in {callClaudeWithRetry(responses)} :
          /\ ~call.ok
          /\ FailJob(i, called(runs[i], call, responses), call.message, 502)

\* parsed after the lenient retry: the answer of the retry when the retry
\* call returned (line 970), else the answer of the strict pass
parsedOf(extras, lenient, retry) == IF lenient /\ retry.ok THEN retry.extras ELSE extras

\* lines 549-1036, one turn of the loop: one contractor is scored
\* the rest of the turn once the strict pass has given rec: the lenient
\* retry when nothing was kept (its request carries content again, since
\* callClaudeWithRetry closes over content), per[cid] and the progress update
Scored(i, run, tables, rec, scan, detected) ==
  LET j    == runs[i].job
      b    == runs[i].bidList[runs[i].bi]
      next == IF runs[i].bi = Len(runs[i].bidList) THEN "merge" ELSE "score"
      lenient == rec.kept = <<>> /\ rec.items = <<>>
  IN  IF rec.threw THEN Throw(i, run)
      ELSE \E retry \in retryAnswers(jobRows[j].job_id) :
             /\ lenient \/ ~retry.ok
             /\ runs' = [runs EXCEPT
                           ![i] = [run EXCEPT
                                     !.pc = next, !.bi = @ + 1, !.done = @ + 1,
                                     !.cid = cidOf(b), !.lenient = lenient, !.retry = retry,
                                     !.sent = IF lenient THEN Append(@, "content") ELSE @,
                                     !.per = MapSet(@, cidOf(b),
                                               perEntry(IF lenient /\ retry.ok
                                                        THEN retryPassWith(tables, retry.items)
                                                        ELSE rec.items,
                                                        parsedOf(run.extras, lenient, retry),
                                                        scan.alts, detected)),
                                     !.unmappedPer =
                                        MapSet(@, cidOf(b),
                                               parsedOf(run.extras, lenient, retry).unmapped
                                                 \o rec.dropped)]]
             /\ jobRows' = [jobRows EXCEPT
                              ![j].batches_done = runs[i].done + 1,
                              ![j].progress = progressOf(runs[i].done + 1, Len(runs[i].bidList))]
             /\ UNCHANGED <<reportRows, statusLog>>

\* tables is what the loop derives from the Candidate Scope List, scan the
\* scan of the contractor's documents (explicitAlternates, combinedEvidence),
\* detected is detectedTotal
ScoreWith(i, tables, scan, detected) ==
  \E answer \in oracleAnswers(jobRows[runs[i].job].job_id) :
     \E extras \in oracleExtras(jobRows[runs[i].job].job_id) :
        \E rec \in {reconcileWith(tables, answer, scan.alts)} :
           \E responses \in oracleResponses :
              \E call \in {callClaudeWithRetry(responses)} :
                 /\ call.ok
                 /\ Scored(i, [called(runs[i], call, responses)
                                 EXCEPT !.answer = answer, !.extras = extras],
                           tables, rec, scan, detected)

Score(i) ==
  /\ runs[i].pc = "score"
  /\ \E tables \in {candidateTables(runs[i].cands)} :
       \E texts \in {textsOf(runs[i].byBidDocs, runs[i].bidList[runs[i].bi].id)} :
          \E scan \in {scanOf(texts)} :
             \E detected \in {detectedTotalOf(scan.evidence, allDocsRawOf(texts))} :
                ScoreWith(i, tables, scan, detected)

\* lines 1038-1092: the merge pass and the insert of the report, whose
\* result is not read
PersistWith(i, scopeItems) ==
  LET j == runs[i].job
  IN  IF mergeThrows(scopeItems, runs[i].bidList, runs[i].per)
      THEN Throw(i, runs[i])
      ELSE /\ \E inserted \in BOOLEAN :
                /\ reportRows' =
                     IF inserted
                     THEN Append(reportRows,
                                 [job_id |-> jobRows[j].job_id,
                                  report |-> reportOf(scopeItems, runs[i].bidList,
                                                      runs[i].contractors, runs[i].per,
                                                      runs[i].unmappedPer)])
                     ELSE reportRows
                /\ runs' = [runs EXCEPT ![i].pc = "finish", ![i].inserted = inserted]
           /\ UNCHANGED <<jobRows, statusLog>>

Persist(i) ==
  /\ runs[i].pc = "merge"
  /\ \E scopeItems \in {scopeItemsOf(runs[i].cands, runs[i].per)} : PersistWith(i, scopeItems)

\* line 1093: update({ status: 'success', progress: 100, finished_at })
MarkSuccess(i) ==
  LET j == runs[i].job
  IN  /\ runs[i].pc = "finish"
      /\ jobRows' = [jobRows EXCEPT ![j] = [@ EXCEPT !.status = "success", !.progress = 100,
                                                     !.finished_at = TRUE]]
      /\ statusLog' = [statusLog EXCEPT ![j] = Append(@, <<jobRows[j].status, "success">>)]
      /\ runs' = [runs EXCEPT ![i] = returned(runs[i], 200)]
      /\ UNCHANGED reportRows

\* the response of an invocation has been delivered
Return(i) ==
  /\ runs[i].pc \in {"ended", "threw"}
  /\ runs' = [runs EXCEPT ![i] = idleRun]
  /\ UNCHANGED <<jobRows, reportRows, statusLog>>

\* the worker invocations run one after another
Next ==
  \E i \in Invocations :
     \/ Alone(i) /\ TakeQueued(i)
     \/ MarkRunning(i)
     \/ LoadBids(i)
     \/ LoadDocs(i)
     \/ CheckKey(i)
     \/ Aggregate(i)
     \/ ScoreFails(i)
     \/ Score(i)
     \/ Persist(i)
     \/ MarkSuccess(i)
     \/ Return(i)

Spec == Init /\ [][Next]_vars

\* the runs on the projects of the report claims
InitReport ==
  /\ \E first \in ReportProjects :
       jobRows = [j \in JobIds |-> queuedRow(IF j = 1 THEN first ELSE "P0")]
  /\ reportRows = <<>>
  /\ runs = [i \in Invocations |-> idleRun]
  /\ statusLog = [j \in JobIds |-> <<>>]

SpecReport == InitReport /\ [][Next]_vars

(***************************************************************************)
(* Concurrent invocations: the route can be entered while another          *)
(* invocation is awaiting, so the steps of two invocations interleave       *)
(***************************************************************************)
\* the project of the first job in the concurrent runs
RaceProject == "P4"

InitConcurrent ==
  /\ jobRows = [j \in JobIds |-> queuedRow(IF j = 1 THEN RaceProject ELSE "P0")]
  /\ reportRows = <<>>
  /\ runs = [i \in Invocations |-> idleRun]
  /\ statusLog = [j \in JobIds |-> <<>>]

NextConcurrent ==
  \E i \in Invocations :
     \/ TakeQueued(i)
     \/ MarkRunning(i)
     \/ LoadBids(i)
     \/ LoadDocs(i)
     \/ CheckKey(i)
     \/ Aggregate(i)
     \/ ScoreFails(i)
     \/ Score(i)
     \/ Persist(i)
     \/ MarkSuccess(i)
     \/ Return(i)

SpecConcurrent == InitConcurrent /\ [][NextConcurrent]_vars

(***************************************************************************)
(* Claims about the Processing Job                                         *)
(***************************************************************************)
\* the writes to status that end a job
terminalWrites(log) == {k \in 1..Len(log) : log[k][2] \in {"success", "failed"}}

\* C1: when the invocations run one after another, every write to a job's
\* status is queued -> running, running -> success or running -> failed,
\* success or failed is written at most once, a job that has left queued
\* has started_at, and a job in success or failed has finished_at
C1_StatusTransitions ==
  \A j \in JobIds :
     /\ \A k \in 1..Len(statusLog[j]) :
           statusLog[j][k] \in {<<"queued", "running">>, <<"running", "success">>,
                                <<"running", "failed">>}
     /\ Cardinality(terminalWrites(statusLog[j])) <= 1
     /\ jobRows[j].status # "queued" => jobRows[j].started_at
     /\ jobRows[j].status \in {"success", "failed"} => jobRows[j].finished_at
     /\ jobRows[j].status = "queued" => statusLog[j] = <<>>

\* a job has gone from queued to running and from running to success, and
\* another one from running to failed
C1_Witness ==
  /\ statusLog[1] = << <<"queued", "running">>, <<"running", "success">> >>
  /\ statusLog[2] = << <<"queued", "running">>, <<"running", "failed">> >>

\* the report rows stored for a processing job
reportsOf(j) == {k \in 1..Len(reportRows) : reportRows[k].job_id = jobRows[j].job_id}

\* C2: whenever a job's status is success, a report row of that job is stored
C2_SuccessHasReport ==
  \A j \in JobIds : jobRows[j].status = "success" => reportsOf(j) # {}

\* C3: once an invocation that took a job has ended, the job is in success
\* or failed; no job is left in running
C3_EndedJobIsTerminal ==
  \A i \in Invocations :
     runs[i].pc \in {"ended", "threw"} /\ runs[i].job # 0
       => jobRows[runs[i].job].status \in {"success", "failed"}

\* C4: a job in status failed has no report row: what was scored before the
\* failure is not persisted
C4_FailedHasNoReport ==
  \A j \in JobIds : jobRows[j].status = "failed" => reportsOf(j) = {}

\* the scoring call of the second contractor has failed after the first
\* contractor was scored, and nothing is stored
C4_Witness ==
  \E i \in Invocations :
     /\ runs[i].pc = "ended" /\ runs[i].http = 502
     /\ jobRows[runs[i].job].status = "failed"
     /\ runs[i].done = 1 /\ runs[i].bi = 2 /\ Len(runs[i].per) = 1
     /\ reportRows = <<>>

(***************************************************************************)
(* Claims about the Reconciler and the report                              *)
(***************************************************************************)
\* the invocations that have scored a contractor and hold its items
scoredRuns == {i \in Invocations : runs[i].cid # "" /\ MapHas(runs[i].per, runs[i].cid)}

\* the names of the items of a list
namesOf(items) == {items[k].name : k \in {q \in 1..Len(items) : items[q].hasName}}

\* C5: for every contractor scored, the Reconciler's output has exactly N
\* items, N the size of the Candidate Scope List: one per candidate and
\* none for another name
C5_ExactlyNItems ==
  \A i \in scoredRuns :
     /\ Len(itemsOfCid(runs[i].per, runs[i].cid)) = Len(runs[i].cands)
     /\ \A k \in 1..Len(itemsOfCid(runs[i].per, runs[i].cid)) :
           itemsOfCid(runs[i].per, runs[i].cid)[k].hasName
     /\ namesOf(itemsOfCid(runs[i].per, runs[i].cid)) = Range(runs[i].cands)

\* the matrix keys of the contractors of a report
cidKeys(report) ==
  {IF report.contractors[k].contractor_id = "" THEN "unassigned"
   ELSE report.contractors[k].contractor_id : k \in 1..Len(report.contractors)}

\* the cells of the matrix of a report, as <<scope item, contractor key>> pairs
cellsOf(report) ==
  UNION {{<<s, cid>> : cid \in DOMAIN report.matrix[s]} : s \in DOMAIN report.matrix}

\* C6: in every persisted report the matrix has exactly
\* |scope_items| x |contractors| cells, one for each pair of a scope_items
\* entry and a contractors entry, and every cell has a status
C6_MatrixCoverage ==
  \A r \in 1..Len(reportRows) :
     /\ cellsOf(reportRows[r].report) =
          Range(reportRows[r].report.scope_items) \X cidKeys(reportRows[r].report)
     /\ Cardinality(cellsOf(reportRows[r].report)) =
          Len(reportRows[r].report.scope_items) * Len(reportRows[r].report.contractors)
     /\ \A c \in cellsOf(reportRows[r].report) :
           reportRows[r].report.matrix[c[1]][c[2]].status # ""

\* a report with two scope items and two contractors is stored, and so is
\* one of a project whose two bids come from the same contractor
C6_Witness ==
  \E r \in 1..Len(reportRows) :
     /\ Len(reportRows[r].report.scope_items) >= 1
     /\ \/ /\ reportRows[r].job_id = "P2"
           /\ Len(reportRows[r].report.contractors) = 2
           /\ Len(reportRows[r].report.scope_items) >= 2
        \/ /\ reportRows[r].job_id = "P3"
           /\ Len(reportRows[r].report.contractors) = 1

\* the invocations whose report has just been stored: the last row of
\* bid_level_reports is theirs
storedRuns == {i \in Invocations : runs[i].pc = "finish" /\ runs[i].inserted}

\* the report the last insert has stored
lastReport == reportRows[Len(reportRows)].report

\* C7: in every persisted report every entry of scope_items and every
\* matrix row name is a member of the Candidate Scope List
C7_NoInventedScope ==
  \A i \in storedRuns :
     /\ Range(lastReport.scope_items) \subseteq Range(runs[i].cands)
     /\ DOMAIN lastReport.matrix \subseteq Range(runs[i].cands)

\* the (status, price) of a scored item, as a matrix cell holds them
valueOf(it) ==
  [status |-> it.status, hasPrice |-> it.hasPrice, price |-> IF it.hasPrice THEN it.price ELSE 0]

\* C8: for every candidate and contractor the matrix cell equals the
\* Reconciler's Scored Item of that candidate for that contractor
C8_CellIsScoredItem ==
  \A i \in storedRuns :
     \A c \in Range(runs[i].cands) :
        \A p \in 1..Len(runs[i].per) :
           \A k \in 1..Len(runs[i].per[p][2].items) :
              runs[i].per[p][2].items[k].hasName /\ runs[i].per[p][2].items[k].name = c
                => lastReport.matrix[c][runs[i].per[p][1]] = valueOf(runs[i].per[p][2].items[k])

\* the items the oracle returned for the last contractor of a run, as the
\* resolution loops see them
oracleItems(run) ==
  canonizeItems(filterItems(run.answer))
    \o (IF run.lenient /\ run.retry.ok THEN filterItems(run.retry.items) ELSE <<>>)

\* the item resolves to candidate c: by its index or name, or because its
\* own name has the key of c
targets(tables, it, c) ==
  \/ mappedDisplayOf(tables, it) = c
  \/ /\ mappedDisplayOf(tables, it) = ""
     /\ it.hasName
     /\ normalizeScope(it.name) = normalizeScope(c)

\* the candidates of a run that no returned item targets
untargeted(run, tables) ==
  {c \in Range(run.cands) :
     \A k \in 1..Len(oracleItems(run)) : ~targets(tables, oracleItems(run)[k], c)}

\* C9: in the report, a candidate that no oracle-returned item targets for
\* a contractor has status not_specified and no price for that contractor
C9_UntargetedIsNotSpecified ==
  \A i \in storedRuns :
     \A c \in untargeted(runs[i], candidateTables(runs[i].cands)) :
        lastReport.matrix[c][runs[i].cid] =
          [status |-> "not_specified", hasPrice |-> FALSE, price |-> 0]

\* the statuses, of those the precedence knows, of the items that target
\* the candidates with the key
statusesOf(items, cands, tables, key) ==
  {items[k].status :
     k \in {q \in 1..Len(items) :
              /\ precedence(items[q].status) # 0
              /\ \E c \in Range(cands) :
                    normalizeScope(c) = key /\ targets(tables, items[q], c)}}

\* the known statuses of the returned items of a run that target a candidate
\* whose key is key, with not_specified (the pre-fill)
statusesAt(run, tables, key) ==
  {"not_specified"} \cup
  Bind(oracleItems(run), LAMBDA items : statusesOf(items, run.cands, tables, key))

\* the highest status of a set by the precedence
highest(statuses) == CHOOSE a \in statuses : \A b \in statuses : precedence(a) >= precedence(b)

\* the rows of a contractor's items whose name has the key
rowsAt(items, key) == {k \in 1..Len(items) : items[k].hasName /\ normalizeScope(items[k].name) = key}

\* the runs whose last contractor was scored by the strict pass
strictRuns == {i \in scoredRuns : ~runs[i].lenient}

byDictionary(tables, it) ==
  IF it.hasName /\ it.name # "" THEN mapToCandidate(tables.normToDisplay, it.name) ELSE ""

byOverlap(tables, it) ==
  IF it.hasName /\ it.name # ""
  THEN nearestCandidate(tables.candidateArray, tables.candTokens, it.name) ELSE ""

expectedTarget(tables, it) ==
  orSelf(byIndex(tables, it), orSelf(byDictionary(tables, it), byOverlap(tables, it)))

\* the item is where its target says: in unmapped with its evidence when
\* it has no target, and otherwise merged into the row of the target, whose
\* status is then at least the item's
placedAt(run, it, target) ==
  IF target = ""
  THEN \E u \in 1..Len(MapGet(run.unmappedPer, run.cid)) :
          MapGet(run.unmappedPer, run.cid)[u].evidence = it.evidence
  ELSE \E k \in rowsAt(itemsOfCid(run.per, run.cid), normalizeScope(target)) :
          precedence(itemsOfCid(run.per, run.cid)[k].status) >= precedence(it.status)

\* every returned item of the strict pass is placed at its expected target
resolvedInOrder(run, tables) ==
  \A k \in 1..Len(filterItems(run.answer)) :
     placedAt(run, filterItems(run.answer)[k], expectedTarget(tables, filterItems(run.answer)[k]))

\* the invocations that ended by an exception while an answer was resolved
threwOnAnswer == {i \in Invocations : runs[i].pc = "threw" /\ runs[i].cid = "" /\ runs[i].sent # <<>>}

\* C11: each returned item is resolved (a) by its candidate_index in 1..N,
\* whatever its name and also without a name, (b) else by the dictionary
\* form of its name, (c) else by token overlap, (d) else it goes to unmapped
C11_ResolutionOrder ==
  /\ threwOnAnswer = {}
  /\ \A i \in strictRuns : resolvedInOrder(runs[i], candidateTables(runs[i].cands))

\* the item has left a trace for the contractor: it is among the
\* contractor's items as returned, or there is a row of the candidate it
\* resolves to, or an unmapped entry with its name and evidence
accounted(run, tables, it) ==
  \/ \E k \in 1..Len(itemsOfCid(run.per, run.cid)) : itemsOfCid(run.per, run.cid)[k] = it
  \/ /\ mappedDisplayOf(tables, it) # ""
     /\ rowsAt(itemsOfCid(run.per, run.cid), normalizeScope(mappedDisplayOf(tables, it))) # {}
  \/ /\ mappedDisplayOf(tables, it) = ""
     /\ \E u \in 1..Len(MapGet(run.unmappedPer, run.cid)) :
           /\ MapGet(run.unmappedPer, run.cid)[u].name = it.name
           /\ MapGet(run.unmappedPer, run.cid)[u].evidence = it.evidence

\* C12: after a contractor is scored, every item the oracle returned, in
\* the strict pass or in the lenient retry, has contributed to a candidate's
\* row or is in unmapped for that contractor with its evidence
C12_NoItemDisappears ==
  \A i \in scoredRuns :
     \A k \in 1..Len(oracleItems(runs[i])) :
        accounted(runs[i], candidateTables(runs[i].cands), oracleItems(runs[i])[k])

(***************************************************************************)
(* Claims about failures and retries                                       *)
(***************************************************************************)
\* the invocation has loaded the documents of all its bids and none of
\* them gave a text fragment
noTexts(run) ==
  /\ run.bidList # <<>>
  /\ run.pc \notin {"idle", "mark", "bids", "docs"}
  /\ run.pc = "ended" => run.bi > Len(run.bidList)
  /\ run.pc = "threw" => run.bi > Len(run.bidList)
  /\ \A k \in 1..Len(run.bidList) : textsOf(run.byBidDocs, run.bidList[k].id) = <<>>

\* C13: when the bids of a job have no documents, or documents without any
\* text, no oracle request is made, no report row is written and the
\* invocation ends with the job failed
C13_EmptyInputFails ==
  \A i \in Invocations :
     noTexts(runs[i]) =>
       /\ ~runs[i].oracle
       /\ reportsOf(runs[i].job) = {}
       /\ runs[i].pc = "ended" => jobRows[runs[i].job].status = "failed"

\* the p-th request of a call is the first one to raise an error that is
\* not a rate-limit error, the requests before it having been rate limited
otherErrorAt(responses, p) ==
  /\ p <= tries
  /\ \A q \in 1..(p - 1) : isRateLimit(responses[q])
  /\ responses[p] # "ok"
  /\ ~isRateLimit(responses[p])

rateLimitedUpTo(responses, k) == \A q \in 1..k : isRateLimit(responses[q])

fourthAttemptRateLimited ==
  \E i \in Invocations :
     /\ runs[i].responses # <<>>
     /\ rateLimitedUpTo(runs[i].responses, 4)
     /\ jobRows[runs[i].job].status = "failed"
     /\ jobRows[runs[i].job].error = RateLimitMessage

\* C16: once a contractor is scored whose strict pass answered with no items
\* at all, two requests have been sent for that contractor, the strict one
\* with content and one retry with the lenient content2
C16_LenientRetryOnce ==
  \A i \in Invocations :
     (runs[i].cid # "" /\ runs[i].answer = <<>>) =>
        runs[i].sent = <<"content", "content2">>

\* the part of C16 the code does keep: a retry is made at most once, and
\* only when the strict pass kept nothing and the Candidate Scope List is empty
retryOnlyWithoutCandidates ==
  \A i \in Invocations :
     /\ Len(runs[i].sent) <= 2
     /\ (runs[i].cid # "" /\ Len(runs[i].sent) = 2) => runs[i].cands = <<>>

\* the last contractor scored got an empty strict answer and a lenient
\* retry that failed or answered with no items
nothingUsable(run) ==
  /\ run.cid # ""
  /\ run.answer = <<>>
  /\ run.lenient
  /\ (~run.retry.ok \/ run.retry.items = <<>>)

\* C17: when the strict pass and the lenient retry of a contractor both
\* yield nothing usable, no report is persisted for the job, the job does
\* not reach success and the invocation ends with the job failed
C17_NothingUsableFails ==
  \A i \in Invocations :
     nothingUsable(runs[i]) =>
       /\ reportsOf(runs[i].job) = {}
       /\ jobRows[runs[i].job].status # "success"
       /\ runs[i].pc = "ended" => jobRows[runs[i].job].status = "failed"

\* the part of C17 the code keeps: an empty strict answer alone never
\* fails the job
emptyAnswerAloneDoesNotFail ==
  \A i \in Invocations :
     (runs[i].cid # "" /\ runs[i].answer = <<>> /\ runs[i].pc \in {"score", "merge"}) =>
        jobRows[runs[i].job].status = "running"

\* finalizeCandidates of the canonicalCandidates of the documents alone
heuristicOnly(bidList, byBidDocs) ==
  Bind(Bind(candidateUnionSet(bidList, byBidDocs), LAMBDA union : Unique(canonAll(union))),
       finalizeCandidates)

\* the aggregation request of the invocation has thrown, or its answer was
\* not JSON, and the scoring loop has been entered
aggregationFailed(run) ==
  /\ run.oracle
  /\ run.pc \in {"score", "merge", "finish", "ended", "threw"}
  /\ (~run.aggOk \/ run.aggItems = <<>>)

notJsonAggregation ==
  \E i \in Invocations :
     /\ runs[i].aggOk
     /\ runs[i].aggItems = <<>>
     /\ runs[i].cands # <<>>
     /\ runs[i].cid # ""

(***************************************************************************)
(* Claims about concurrent invocations                                     *)
(***************************************************************************)
\* the invocation is between its update to running and its last write
processing(run) ==
  run.pc \in {"bids", "docs", "key", "aggregate", "score", "merge", "finish"}

\* C19: an invocation that has read a queued row can always go on to mark it
\* running, whatever the row's status has become since the read, and every
\* invocation processing a job has marked it running itself
C19_ClaimIsUnconditional ==
  \A i \in Invocations :
     /\ runs[i].pc = "mark" => ENABLED MarkRunning(i)
     /\ processing(runs[i]) =>
          Cardinality({k \in 1..Len(statusLog[runs[i].job]) :
                         statusLog[runs[i].job][k][2] = "running"})
            >= Cardinality({o \in Invocations :
                              processing(runs[o]) /\ runs[o].job = runs[i].job})

\* one job is being processed by two invocations at once, the second having
\* marked it running when it was running already
C19_Witness ==
  \E i \in Invocations : \E o \in Invocations \ {i} :
     /\ processing(runs[i])
     /\ processing(runs[o])
     /\ runs[i].job = runs[o].job
     /\ jobRows[runs[i].job].status = "running"
     /\ <<"running", "running">> \in {statusLog[runs[i].job][k] : k \in 1..Len(statusLog[runs[i].job])}

\* the columns of a processing_jobs row that a finished job keeps
outcomeOf(row) ==
  <<row.status, row.progress, row.batches_done, row.error, row.finished_at>>

\* C20: once the status of a job is success or failed, no step changes its
\* status, progress, batches_done, error or finished_at
C20_TerminalRowIsFrozen ==
  [][\A j \in JobIds :
        jobRows[j].status \in {"success", "failed"} =>
           outcomeOf(jobRows'[j]) = outcomeOf(jobRows[j])]_vars

(***************************************************************************)
(* Claims about the report and the progress columns                        *)
(***************************************************************************)
\* the progress columns of a row are consistent with its status
progressInRange(row) ==
  /\ row.progress \in 0..100
  /\ row.batches_done <= row.batches_total
  /\ row.status = "running" => row.progress <= 90
  /\ row.status = "success" <=> row.progress = 100

C27_OneColumnPerBid ==
  \A i \in storedRuns :
     /\ Len(lastReport.contractors) = Len(runs[i].bidList)
     /\ \A s \in DOMAIN lastReport.matrix :
           Cardinality(DOMAIN lastReport.matrix[s]) = Len(runs[i].bidList)

(***************************************************************************)
(* Claims about the cells, the prices and the alternates                    *)
(***************************************************************************)
\* the statuses a matrix cell can have
CellStatuses == {"included", "excluded", "not_specified"}

\* C28: in every persisted report every matrix cell has one of the statuses
\* included, excluded, not_specified, whatever status strings the oracle
\* returned
C28_CellStatusIsKnown ==
  \A r \in 1..Len(reportRows) :
     \A s \in DOMAIN reportRows[r].report.matrix :
        \A cid \in DOMAIN reportRows[r].report.matrix[s] :
           reportRows[r].report.matrix[s][cid].status \in CellStatuses

\* the returned items with a numeric price that target a candidate with
\* the key, in the order of the answer
pricedAt(items, cands, tables, key) ==
  SelectSeq(items, LAMBDA it :
                     /\ it.hasPrice
                     /\ \E c \in Range(cands) :
                           normalizeScope(c) = key /\ targets(tables, it, c))

\* C23: when several returned items target one candidate for a contractor,
\* the merged row has the first numeric price among them, whatever the
\* statuses of the later items
C23_FirstPriceKept ==
  \A i \in strictRuns :
     \A tables \in {candidateTables(runs[i].cands)} :
        \A items \in {oracleItems(runs[i])} :
           \A key \in {normalizeScope(c) : c \in Range(runs[i].cands)} \ {""} :
              \A priced \in {pricedAt(items, runs[i].cands, tables, key)} :
                 priced # <<>> =>
                   \A k \in rowsAt(itemsOfCid(runs[i].per, runs[i].cid), key) :
                      /\ itemsOfCid(runs[i].per, runs[i].cid)[k].hasPrice
                      /\ itemsOfCid(runs[i].per, runs[i].cid)[k].price = priced[1].price

\* the line is the heading of an alternates section
isAlternatesHeading(line) == ToLower(Trim(line)) \in {"alternates", "alternates:"}

\* the lines of a document that stand in its alternates section: after the
\* heading, before the heading of another section
alternatesSection(lines) ==
  {lines[k] : k \in {q \in 1..Len(lines) :
                       /\ Trim(lines[q]) # ""
                       /\ ~isAlternatesHeading(lines[q])
                       /\ \E h \in 1..(q - 1) :
                             /\ isAlternatesHeading(lines[h])
                             /\ \A m \in (h + 1)..q :
                                   detectSection(lines[m]) \in {"", "alternates"}}}

\* the alternate lines, with a dollar amount, of the alternates sections of
\* the documents of the bid scored last
alternateLines(run) ==
  UNION {alternatesSection(SplitLines(t.text)) :
           t \in Range(textsOf(run.byBidDocs, run.bidList[run.bi - 1].id))}

\* the oracle returned an item for the alternate with this title
returnedFor(tables, items, title) ==
  \E k \in 1..Len(items) :
     /\ items[k].hasName \/ mappedDisplayOf(tables, items[k]) # ""
     /\ normalizeScope(renamedTo(items[k], mappedDisplayOf(tables, items[k])).name)
          = normalizeScope(title)

\* C24: an alternate line of a contractor's alternates section that the
\* oracle did not return is among the contractor's items, with the dollar
\* amount of the line as price, negative for a deduct
C24_AlternateLineIsAdded ==
  \A i \in strictRuns :
     \A tables \in {candidateTables(runs[i].cands)} :
        \A items \in {oracleItems(runs[i])} :
           \A line \in alternateLines(runs[i]) :
              \A pa \in {parseAlt(line)} :
                 (pa.ok /\ ~returnedFor(tables, items, pa.name)) =>
                    \E k \in rowsAt(itemsOfCid(runs[i].per, runs[i].cid), normalizeScope(pa.name)) :
                       /\ itemsOfCid(runs[i].per, runs[i].cid)[k].hasPrice
                       /\ itemsOfCid(runs[i].per, runs[i].cid)[k].price = pa.price

\* the deduct line of the alternates section of P5 has been added with its
\* negative amount
deductLineAdded ==
  \E i \in strictRuns :
     /\ jobRows[runs[i].job].job_id = "P5"
     /\ "Deduct for pipe insulation $ 4,200" \in alternateLines(runs[i])
     /\ \E k \in 1..Len(itemsOfCid(runs[i].per, runs[i].cid)) :
           /\ itemsOfCid(runs[i].per, runs[i].cid)[k].name = "Alternate: Deduct for pipe insulation"
           /\ itemsOfCid(runs[i].per, runs[i].cid)[k].hasPrice
           /\ itemsOfCid(runs[i].per, runs[i].cid)[k].price = 0 - 4200

(***************************************************************************)
(* The item objects after a strict pass (POST, lines 815-926): the loops    *)
(* assign to it.name and to prev.price, and the items are objects of the    *)
(* parsed answer                                                            *)
(***************************************************************************)
\* the kept items of the resolution loop, each with its position in items
\* (the filtered, canonized answer)
taggedKept(tables, items) ==
  Flatten([k \in 1..Len(items) |->
             IF resolveOne(tables, items[k]).kept # <<>>
             THEN <<[src |-> k, it |-> resolveOne(tables, items[k]).kept[1]]>>
             ELSE <<>>],
          Len(items))

\* kept after the injection of the alternates: the injected objects are
\* new ones (position 0)
taggedInjected(tagged, kept, all) ==
  tagged \o AsSeq([k \in 1..(Len(all) - Len(kept)) |-> [src |-> 0, it |-> all[Len(kept) + k]]])

\* the collapse on the tagged items: st.m is collapsedMap, st.gone holds
\* the objects that another item has replaced in the map, as they were then
RECURSIVE collapseTagged(_, _, _)
collapseTaggedOne(st, t, key) ==
  CASE key = "" -> st
    [] key # "" /\ ~MapHas(st.m, key) -> [st EXCEPT !.m = MapSet(@, key, t)]
    [] key # "" /\ MapHas(st.m, key)
         /\ precedenceGreater(t.it.status, MapGet(st.m, key).it.status) ->
         [m |-> MapSet(st.m, key, t), gone |-> st.gone \cup {MapGet(st.m, key)}]
    [] key # "" /\ MapHas(st.m, key)
         /\ ~precedenceGreater(t.it.status, MapGet(st.m, key).it.status)
         /\ ~MapGet(st.m, key).it.hasPrice /\ t.it.hasPrice ->
         [st EXCEPT !.m = MapSet(@, key, [MapGet(st.m, key) EXCEPT !.it.hasPrice = TRUE,
                                                                   !.it.price = t.it.price])]
    [] OTHER -> st

collapseTagged(tagged, k, st) ==
  IF k > Len(tagged) THEN st
  ELSE collapseTagged(tagged, k + 1,
                      collapseTaggedOne(st, tagged[k], normalizeScope(tagged[k].it.name)))

\* the pre-filled rows are new objects too
taggedPrefill(prefilled) ==
  AsSeq([k \in 1..Len(prefilled) |-> <<prefilled[k][1], [src |-> 0, it |-> prefilled[k][2]]>>])

\* the objects of the filtered answer after the pass: st is the outcome of
\* the collapse
leftItems(tables, items, st) ==
  LET held == {t \in Range(MapValues(st.m)) \cup st.gone : t.src # 0}
  IN  AsSeq([k \in 1..Len(items) |->
               IF \E t \in held : t.src = k
               THEN (CHOOSE t \in held : t.src = k).it
               ELSE renamedTo(items[k], mappedDisplayOf(tables, items[k]))])

leftFiltered(tables, items, tagged, kept, explicitAlternates) ==
  leftItems(tables, items,
            collapseTagged(taggedInjected(tagged, kept, injectAlternates(kept, explicitAlternates, 1)),
                           1, [m |-> taggedPrefill(tables.prefilled), gone |-> {}]))

\* parsed.items after the pass: the objects that passed the filter as the
\* pass left them, the others untouched; filtered is the answer after the
\* pass on the filtered items
leftAnswer(rawItems, filtered) ==
  AsSeq([k \in 1..Len(rawItems) |->
           IF rawItems[k].hasStatus /\ (rawItems[k].hasName \/ rawItems[k].hasIdx)
           THEN filtered[Len(filterItems(SubSeq(rawItems, 1, k)))]
           ELSE rawItems[k]])

leftByPass(tables, rawItems, items, explicitAlternates) ==
  leftAnswer(rawItems,
             leftFiltered(tables, items, taggedKept(tables, items),
                          resolveAll(tables, items).kept, explicitAlternates))

\* parsed.items after a strict pass that did not throw
leftBy(tables, rawItems, explicitAlternates) ==
  leftByPass(tables, rawItems, canonizeItems(filterItems(rawItems)), explicitAlternates)

\* what the claim compares: candidate (the row name), status and price
asScored(items) ==
  AsSeq([k \in 1..Len(items) |->
           [name |-> items[k].name, status |-> items[k].status,
            hasPrice |-> items[k].hasPrice,
            price |-> IF items[k].hasPrice THEN items[k].price ELSE 0]])

\* C25: a second strict pass on the same answer, whose item objects are as
\* the first pass left them, and the same Candidate Scope List gives the
\* Scored Items of the first pass: same rows, same status, same price
C25_ReconcileIsIdempotent ==
  \A i \in strictRuns :
     \A tables \in {candidateTables(runs[i].cands)} :
        \A alts \in {explicitAlternatesOf(textsOf(runs[i].byBidDocs,
                                                  runs[i].bidList[runs[i].bi - 1].id))} :
           \A left \in {leftBy(tables, runs[i].answer, alts)} :
              \A again \in {reconcileWith(tables, left, alts)} :
                 /\ ~again.threw
                 /\ asScored(again.items) = asScored(itemsOfCid(runs[i].per, runs[i].cid))

\* the first pass renamed an item and copied a price into a row
C25_Witness ==
  \E i \in strictRuns :
     \E tables \in {candidateTables(runs[i].cands)} :
        \E alts \in {explicitAlternatesOf(textsOf(runs[i].byBidDocs,
                                                  runs[i].bidList[runs[i].bi - 1].id))} :
           \E left \in {leftBy(tables, runs[i].answer, alts)} :
              /\ Len(runs[i].answer) = 2
              /\ \E k \in 1..2 : left[k].name # runs[i].answer[k].name
              /\ \E k \in 1..2 : left[k].hasPrice /\ ~runs[i].answer[k].hasPrice
              /\ asScored(reconcileWith(tables, left, alts).items)
                   = asScored(itemsOfCid(runs[i].per, runs[i].cid))

(***************************************************************************)
(* Claims about the totals and the qualifications of a contractor           *)
(***************************************************************************)
\* the answer that line 1028 reads: the retry answer after a lenient pass
parsedOfRun(run) == parsedOf(run.extras, run.lenient, run.retry)

\* the entry of the contractor scored last in the contractors of the report
totalShown(run) ==
  {c.total : c \in {d \in Range(contractorsWithTotals(run.contractors, run.per)) :
                       cidOf(d) = run.cid}}

\* C21: the total of a contractor is the total of the oracle's answer when
\* that is a number, otherwise the sum of the prices of the contractor's
\* included items when that sum exists, otherwise null; nothing else
\* determines it
C21_TotalFromOracleOrPrices ==
  \A i \in scoredRuns :
     \A parsed \in {parsedOfRun(runs[i])} :
        \A total \in totalShown(runs[i]) :
           total = IF parsed.hasTotal THEN Number(parsed.total)
                   ELSE sumOrNull(includedSum(itemsOfCid(runs[i].per, runs[i].cid), 1))

\* a contractor whose total comes from the oracle's answer is in a report
oracleTotalShown ==
  \E i \in scoredRuns :
     /\ parsedOfRun(runs[i]).hasTotal
     /\ \E total \in totalShown(runs[i]) : total = Number(parsedOfRun(runs[i]).total)

\* the entries of one field of the qualifications stored for a contractor
qualEntries(per, cid, f) ==
  IF MapHas(per, cid) THEN Range(MapGet(per, cid).qualifications[f]) ELSE {}

\* a step of a run keeps the entries a contractor already has
laterBidKeeps(before, after) ==
  after.job = before.job =>
     \A cid \in Range(cidsOf(before.bidList)) : \A f \in QualFields :
        MapHas(after.per, cid) => qualEntries(before.per, cid, f) \subseteq qualEntries(after.per, cid, f)

\* the entries of the answer to the strict request are stored after a
\* lenient retry as well
laterPassKeeps(run) ==
  (run.cid # "" /\ MapHas(run.per, run.cid)) =>
     \A f \in QualFields : Range(run.extras.qualifications[f]) \subseteq qualEntries(run.per, run.cid, f)

\* no field lists an entry twice
noDuplicates(run) ==
  \A cid \in Range(cidsOf(run.bidList)) : \A f \in QualFields :
     MapHas(run.per, cid) =>
        Cardinality(Range(MapGet(run.per, cid).qualifications[f]))
          = Len(MapGet(run.per, cid).qualifications[f])

\* C22: the qualifications of a contractor are the duplicate-free union, per
\* field, of everything obtained for the contractor: a later bid of the same
\* contractor and a later scoring pass keep the entries obtained earlier
C22_QualificationsAccumulate ==
  [][\A i \in Invocations :
        /\ laterBidKeeps(runs[i], runs'[i])
        /\ laterPassKeeps(runs'[i])
        /\ noDuplicates(runs'[i])]_vars

(***************************************************************************)
(* Claim about the contractors' independence: a second run that differs     *)
(* only in the answer for one contractor is obtained from a run whose loop  *)
(* has ended by replacing that contractor's entries with another outcome of  *)
(* its turn of the loop                                                      *)
(***************************************************************************)
\* what one turn of the loop stores for its contractor, as Scored stores it
turnOutcome(tables, rec, extras, retry, scan, detected) ==
  [ok    |-> ~rec.threw /\ ((rec.kept = <<>> /\ rec.items = <<>>) \/ ~retry.ok),
   entry |-> perEntry(IF rec.kept = <<>> /\ rec.items = <<>> /\ retry.ok
                      THEN retryPassWith(tables, retry.items) ELSE rec.items,
                      parsedOf(extras, rec.kept = <<>> /\ rec.items = <<>>, retry),
                      scan.alts, detected),
   unm   |-> parsedOf(extras, rec.kept = <<>> /\ rec.items = <<>>, retry).unmapped
               \o rec.dropped]

\* the outcomes of the turn of one bid over all the answers of the oracle
turnOutcomesWith(jobId, tables, scan, detected) ==
  {o \in {turnOutcome(tables, reconcileWith(tables, answer, scan.alts), extras, retry,
                    scan, detected) :
             answer \in oracleAnswers(jobId), extras \in oracleExtras(jobId),
             retry \in retryAnswers(jobId)} : o.ok}

turnOutcomesOf(run, jobId, b) ==
  Bind(scanOf(textsOf(run.byBidDocs, b.id)),
       LAMBDA scan : turnOutcomesWith(jobId, candidateTables(run.cands), scan,
                                  detectedTotalOf(scan.evidence,
                                                  allDocsRawOf(textsOf(run.byBidDocs, b.id)))))

\* the report the merge pass builds from the entries of a run
reportOfEntries(run, per, unmappedPer) ==
  reportOf(scopeItemsOf(run.cands, per), run.bidList, run.contractors, per, unmappedPer)

mergeSucceeds(run, per) == ~mergeThrows(scopeItemsOf(run.cands, per), run.bidList, per)

\* what a report says about one contractor: its cells on the candidate
\* rows, its qualifications, its unmapped list and its total
columnOf(report, cands, cid) ==
  [cells |-> [s \in Range(cands) |-> report.matrix[s][cid]],
   qualifications |-> report.qualifications[cid],
   unmapped |-> IF MapHas(report.unmapped, cid) THEN MapGet(report.unmapped, cid) ELSE <<>>,
   total |-> {c.total : c \in {d \in Range(report.contractors) : cidOf(d) = cid}}]

\* the reports of the runs that differ from run in the answer for bid b
\* agree with the report of run on every other contractor
sameForOthers(run, jobId, b) ==
  \A o \in turnOutcomesOf(run, jobId, b) :
     \A per2 \in {MapSet(run.per, cidOf(b), o.entry)} :
        mergeSucceeds(run, per2) =>
           \A rep \in {reportOfEntries(run, run.per, run.unmappedPer)} :
              \A rep2 \in {reportOfEntries(run, per2,
                                           MapSet(run.unmappedPer, cidOf(b), o.unm))} :
                 \A cid \in Range(cidsOf(run.bidList)) \ {cidOf(b)} :
                    columnOf(rep2, run.cands, cid) = columnOf(rep, run.cands, cid)

\* the entries stored for a contractor, when there are any
entriesOf(run, cid) ==
  [per |-> IF MapHas(run.per, cid) THEN <<MapGet(run.per, cid)>> ELSE <<>>,
   unmapped |-> IF MapHas(run.unmappedPer, cid)
                THEN <<MapGet(run.unmappedPer, cid)>> ELSE <<>>]

\* a turn of the loop changes the entries of its own contractor only
turnKeepsOthers(before, after) ==
  (before.pc = "score" /\ after.job = before.job) =>
     \A cid \in Range(cidsOf(before.bidList)) :
        (after.done = before.done \/ cid # after.cid) =>
           entriesOf(after, cid) = entriesOf(before, cid)

\* once the loop has ended, another answer for any one bid leaves the
\* other contractors' part of the report as it is
reportKeepsOthers(run, jobId) ==
  (run.pc = "merge" /\ mergeSucceeds(run, run.per)) =>
     \A k \in 1..Len(run.bidList) :
        Range(cidsOf(run.bidList)) # {cidOf(run.bidList[k])} =>
           sameForOthers(run, jobId, run.bidList[k])

\* C29: two successful runs over the same documents and the same Candidate
\* Scope List that differ only in the oracle's answer for contractor A give
\* every other contractor B the same cells on the candidate rows, the same
\* qualifications, the same unmapped list and the same total
C29_OtherContractorsUnaffected ==
  /\ [][\A i \in Invocations : turnKeepsOthers(runs[i], runs'[i])]_vars
  /\ [](\A i \in Invocations :
          runs[i].pc = "merge" => reportKeepsOthers(runs[i], jobRows[runs[i].job].job_id))

\* the loop has ended for two contractors, one of them has an included cell
\* with a price, an unmapped entry and a total from the answer, and the
\* other one has outcomes that differ from the one it got
C29_Witness ==
  \E i \in Invocations :
     /\ runs[i].pc = "merge" /\ mergeSucceeds(runs[i], runs[i].per)
     /\ Len(cidsOf(runs[i].bidList)) > 1
     /\ \E k \in 1..Len(runs[i].bidList) : \E cid \in Range(cidsOf(runs[i].bidList)) :
          /\ cid # cidOf(runs[i].bidList[k])
          /\ \E o \in turnOutcomesOf(runs[i], jobRows[runs[i].job].job_id, runs[i].bidList[k]) :
               o.entry # MapGet(runs[i].per, cidOf(runs[i].bidList[k]))
          /\ \A col \in {columnOf(reportOfEntries(runs[i], runs[i].per, runs[i].unmappedPer),
                                  runs[i].cands, cid)} :
               /\ \E s \in Range(runs[i].cands) :
                    col.cells[s].status = "included" /\ col.cells[s].price = 800
               /\ col.unmapped # <<>>
               /\ col.total = {Number(9000)}

(***************************************************************************)
(* The size of the scoring request (POST, lines 554-751), seen through the  *)
(* lengths of its text blocks: a block is the number of characters of its   *)
(* text and whether the text contains '=== EXTRACT:'                        *)
(***************************************************************************)
block(len, extract) == [len |-> len, extract |-> extract]

smaller(a, b) == IF a < b THEN a ELSE b

larger(a, b) == IF a > b THEN a ELSE b

\* the characters of the text blocks
RECURSIVE charsFrom(_, _)
charsFrom(blocks, k) ==
  IF k > Len(blocks) THEN 0 ELSE blocks[k].len + charsFrom(blocks, k + 1)

\* estTokens: Math.ceil(chars / 4)
estTokens(blocks) == (charsFrom(blocks, 1) + 3) \div 4

\* the budget of the request in tokens
BudgetTokens == 30000

\* a block is cut when its text is longer than this
TrimOver == 5000

\* and never below this many characters
TrimFloor == 2000

\* t.slice(0, Math.max(2000, Math.floor(t.length * 0.6)))
trimmedLen(len) == smaller(len, larger(TrimFloor, (len * 6) \div 10))

\* the loop of trimToBudget from block k on: one pass over the blocks, which
\* stops once the estimate is within maxTokens
RECURSIVE trimFrom(_, _, _)
trimFrom(blocks, k, maxTokens) ==
  IF k > Len(blocks) \/ estTokens(blocks) <= maxTokens THEN blocks
  ELSE trimFrom(IF blocks[k].extract \/ blocks[k].len > TrimOver
                THEN [blocks EXCEPT ![k].len = trimmedLen(@)]
                ELSE blocks,
                k + 1, maxTokens)

trimToBudget(blocks, maxTokens) == trimFrom(blocks, 1, maxTokens)

\* the characters of instruct without the two row counts, and of preface
InstructLen == 1337

PrefaceLen == 1278

\* the decimal digits of a row count
digitsOf(n) == IF n < 10 THEN 1 ELSE IF n < 100 THEN 2 ELSE 3

\* 'CANDIDATE_SCOPE (unified across all bids):\n' and the rows 'k. name'
\* joined by '\n', for n candidates of nameLen characters
RECURSIVE rowsLen(_, _)
rowsLen(n, nameLen) ==
  IF n = 0 THEN 0 ELSE digitsOf(n) + 2 + nameLen + (IF n > 1 THEN 1 ELSE 0) + rowsLen(n - 1, nameLen)

candBlockLen(n, nameLen) == 43 + rowsLen(n, nameLen)

\* '--- Contractor: name (id cid) ---' for a name of 15 and an id of 36 characters
ContractorLineLen == 77

\* the characters of the name of a text, as in 'bid.pdf :: page 12 :: text'
TextNameLen == 26

\* '=== DOCUMENT: name ===\n' snippet '\n'
documentBlockLen(fullLen) == 20 + TextNameLen + smaller(fullLen, SnippetLimit)

\* evidence below this many characters brings the lenient extracts in
ThinEvidence == 1500

\* the lenient extracts: at most this many characters of a text, none once
\* accChars is over LenientCeiling, and no more once it is over LenientFootprint
LenientAdd == 3000

LenientCeiling == 160000

LenientFootprint == 40000

\* lines 705-714: the blocks '=== RAW EXTRACT (lenient): name ===\n' add
RECURSIVE lenientBlocks(_, _, _, _)
lenientBlocks(left, rawLen, extract, accChars) ==
  IF left = 0 \/ accChars > LenientCeiling THEN <<>>
  ELSE <<block(32 + TextNameLen + smaller(rawLen, LenientAdd), extract)>>
         \o (IF accChars + 32 + TextNameLen + smaller(rawLen, LenientAdd) > LenientFootprint
             THEN <<>>
             ELSE lenientBlocks(left - 1, rawLen, extract,
                                accChars + 32 + TextNameLen + smaller(rawLen, LenientAdd)))

\* the texts of a contractor's documents: a pdf gives a text for every page
\* and every table, so their number has no bound in the code
MaxTexts == 45

\* the characters kept of one text (fullText), and of the block of explicit
\* alternates when there is one
TextLens == {0, 1000, 4900, 10000, 50000}

AltsLens == {0, 6000}

\* the numbers of rows of CANDIDATE_SCOPE and the characters of a row's name
RowCounts == {1, 60}

RowNameLen == 40

\* the turn of the loop before its first text: content holds instruct,
\* preface, candBlock and the contractor line (lines 583-612)
requestOf(rows, texts, fullLen, extract, altsLen) ==
  [pc |-> "documents",
   content |-> << block(InstructLen + 2 * digitsOf(rows), FALSE), block(PrefaceLen, FALSE),
                  block(candBlockLen(rows, RowNameLen), FALSE),
                  block(ContractorLineLen, FALSE) >>,
   accChars |-> 0, left |-> texts, texts |-> texts, fullLen |-> fullLen,
   extract |-> extract, altsLen |-> altsLen]

noRequest ==
  [pc |-> "idle", content |-> <<>>, accChars |-> 0, left |-> 0, texts |-> 0, fullLen |-> 0,
   extract |-> FALSE, altsLen |-> 0]

\* one invocation builds the request of one contractor, whose texts have
\* one size
InitBudget ==
  /\ \E rows \in RowCounts : \E texts \in 0..MaxTexts : \E fullLen \in TextLens :
       \E extract \in BOOLEAN : \E altsLen \in AltsLens :
          runs = [i \in Invocations |->
                    IF i = 1 THEN requestOf(rows, texts, fullLen, extract, altsLen)
                    ELSE noRequest]
  /\ jobRows = <<>>
  /\ reportRows = <<>>
  /\ statusLog = <<>>

\* lines 622-675, one turn of the loop over docs.texts
PushDocument(i) ==
  /\ runs[i].pc = "documents"
  /\ runs[i].left > 0
  /\ runs[i].accChars <= EvidenceCharLimit
  /\ runs' = [runs EXCEPT
                ![i].content = Append(@, block(documentBlockLen(runs[i].fullLen),
                                               runs[i].extract)),
                ![i].accChars = @ + documentBlockLen(runs[i].fullLen),
                ![i].left = @ - 1]
  /\ UNCHANGED <<jobRows, reportRows, statusLog>>

\* lines 696-716 for a request whose content is blocks: the block of the
\* explicit alternates and the lenient extracts
withAlternates(blocks, altsLen) ==
  IF altsLen > 0 THEN Append(blocks, block(altsLen, FALSE)) ELSE blocks

withLenient(blocks, run) ==
  IF charsFrom(blocks, 1) < ThinEvidence
  THEN blocks \o lenientBlocks(run.texts, run.fullLen, run.extract,
                               run.accChars + run.altsLen)
  ELSE blocks

\* the loop over docs.texts has ended (no text is left or accChars is over
\* the limit): lines 696-716
PushBlocks(i) ==
  /\ runs[i].pc = "documents"
  /\ runs[i].left = 0 \/ runs[i].accChars > EvidenceCharLimit
  /\ runs' = [runs EXCEPT
                ![i].content = withLenient(withAlternates(@, runs[i].altsLen), runs[i]),
                ![i].accChars = @ + runs[i].altsLen,
                ![i].pc = "trim"]
  /\ UNCHANGED <<jobRows, reportRows, statusLog>>

\* line 751: content = trimToBudget(content, 30_000), and the request is sent
TrimAndSend(i) ==
  /\ runs[i].pc = "trim"
  /\ runs' = [runs EXCEPT ![i].content = trimToBudget(@, BudgetTokens), ![i].pc = "sent"]
  /\ UNCHANGED <<jobRows, reportRows, statusLog>>

NextBudget ==
  \E i \in Invocations :
     \/ PushDocument(i)
     \/ PushBlocks(i)
     \/ TrimAndSend(i)

SpecBudget == InitBudget /\ [][NextBudget]_vars

\* C30: the estimate of the scoring request that is sent, the characters of
\* its text blocks divided by 4 and rounded up, is at most 30,000 tokens,
\* whatever the number and the sizes of the evidence blocks
C30_RequestWithinBudget ==
  \A i \in Invocations :
     runs[i].pc = "sent" => estTokens(runs[i].content) <= BudgetTokens

\* a request over the budget was trimmed into it
trimmedIntoBudget ==
  \E i \in Invocations :
     /\ runs[i].pc = "sent"
     /\ \E k \in 1..Len(runs[i].content) :
          runs[i].content[k].len = trimmedLen(documentBlockLen(runs[i].fullLen))
            /\ runs[i].content[k].len < documentBlockLen(runs[i].fullLen)
     /\ estTokens(runs[i].content) <= BudgetTokens
====
